---- MODULE Spec2Model ----
(***************************************************************************)
(* Retrieval engine of the RAG chatbot: hybrid retrieval (score fusion of  *)
(* a sparse and a dense result list) and second-pass reranking.            *)
(*                                                                         *)
(* Arithmetic.  The Python code computes with floats.  The model computes  *)
(* with exact fixed-point integers:                                        *)
(*   - a raw store score is an integer in 0..MaxScore;                     *)
(*   - a normalized score n in [0,1] is the integer n * Scale, where Scale *)
(*     is a common multiple of every possible (max - min), so the division *)
(*     of _normalize_scores is exact;                                      *)
(*   - a weight w is the integer 2*w (1 stands for the default 0.5);       *)
(*   - sparse_score, dense_score and final_score are products of the two.  *)
(***************************************************************************)
EXTENDS Integers, Sequences, FiniteSets, TLC

\* ---------------------------------------------------------------- bounds
MaxScore == 2
MaxTopK == 2
MaxLen == 2
MaxScoresLen == 4
MaxDocs == 2

\* ------------------------------------------------------- input domains
ChunkIds == {"A", "B", "C"}
Scores == 0..MaxScore
Weights == {1, 2}
TopKs == 1..MaxTopK

VARIABLES
    pc,              \* position of the operation under way
    sparse_weight,   \* HybridRetriever.sparse_weight
    dense_weight,    \* HybridRetriever.dense_weight
    top_k,           \* argument of retrieve
    sparse_results,  \* list returned by SparseIndexer.search
    dense_results,   \* list returned by DenseIndexer.search
    sparse_failed,   \* the sparse path hit an exception inside search
    dense_failed,    \* the dense path hit an exception inside search
    fused_results,   \* value of _fuse_results
    returned,        \* value returned by retrieve
    scores,          \* argument of _normalize_scores
    normalized,      \* value of _normalize_scores
    use_llm,         \* Reranker.use_llm
    query,           \* argument of rerank: the set query.lower().split()
    documents,       \* argument of rerank: the caller's list of candidates
    input_documents, \* the candidates as they were when rerank was called
    judge_log,       \* what the provider did on each call of generate, in order
    idx,             \* position of the scoring loop in documents
    reranked_docs,   \* local list of _llm_rerank
    reranked,        \* value returned by the strategy method
    rerank_result,   \* value returned by rerank
    chunks,          \* argument of index_documents
    ix_pos,          \* i of the batch loop of index_documents (1-based)
    indexed_count,   \* indexed_count / total_upserted
    ix_return,       \* value returned by index_documents, <<>> while it runs
    dense_store,     \* records of the dense Pinecone index, by id
    ix_embedded,     \* ids of the chunks whose own embedding call succeeded
    ix_persisted,    \* ids of the records this invocation has upserted
    batch_size,      \* argument batch_size of index_documents
    ix_run,          \* 1 during the first indexing of the chunk list, 2 during the second
    upsert_failed,   \* TRUE once index.upsert has raised in this invocation
    first_store,     \* the store as the first indexing left it
    first_clean,     \* TRUE iff the first indexing met no failure at all
    hash_seed,       \* the string hash seed of the running Python process
    sparse_store,    \* records of the sparse Pinecone index
    vectors_to_upsert, \* vectors_to_upsert of SparseIndexer.index_documents
    search_query,    \* argument query of SparseIndexer.search, a list of words
    query_sparse,    \* query_sparse of SparseIndexer.search, <<>> before it is computed
    pp_documents,    \* argument documents of DocumentPreprocessor.preprocess
    pp_config,       \* target_tokens, max_tokens, overlap_tokens, min_tokens of the preprocessor
    doc_idx,         \* number of documents the loop of preprocess has processed
    all_chunks,      \* all_chunks of preprocess
    chunk_counter,   \* chunk_counter of preprocess
    chunk_owner,     \* for each chunk of all_chunks, <<document number, section number>>
    pp_return,       \* value returned by preprocess, <<>> while it runs
    sparse_pc,       \* position of the sparse search of a retrieve call
    dense_pc,        \* position of the dense search of a retrieve call
    query_embedding, \* query_embedding of DenseIndexer.search, <<>> before it is computed
    search_env,      \* what the embedding model and the two stores will answer
    state_at_start,  \* the stores and the hash seed when retrieve was called
    search_trace,    \* the steps of the two searches, in the order they were taken
    ingester,        \* which DocumentIngester runs: that of data/ or that of preprocessor/
    files,           \* the paths the scan of data_dir yields, in the order it yields them
    file_idx,        \* number of paths the loop of ingest_all has processed
    ing_documents,   \* documents of ingest_all
    ing_return,      \* value returned by ingest_all, <<>> while it runs
    build_outcome,   \* how build_index ended, <<>> while it runs
    search_top_k,    \* argument top_k of KnowledgeBasePipeline.search
    use_reranking,   \* argument use_reranking of KnowledgeBasePipeline.search
    search_results,  \* results of KnowledgeBasePipeline.search
    search_return,   \* value returned by KnowledgeBasePipeline.search, <<>> while it runs
    orch_mode,       \* which entry of RAGOrchestrator runs: process or stream_process
    orch_state,      \* the AgentState that flows through the workflow
    agent_trace,     \* the agents invoked in this run, in the order of their invocation
    guard_llm_failed, \* TRUE iff the provider call of the domain guard failed in this run
    stm_messages,    \* the Redis list session:<id>:messages, head first
    stm_appended,    \* every message append_message was called with, in the order of the calls
    stm_return       \* the last call of get_recent_messages and its value, <<>> before any

retrVars == <<sparse_weight, dense_weight, top_k, sparse_results, dense_results,
              sparse_failed, dense_failed, fused_results, returned>>
normVars == <<scores, normalized>>
rerankVars == <<use_llm, query, documents, input_documents, judge_log, idx, reranked_docs,
                reranked, rerank_result>>
ixVars == <<chunks, ix_pos, indexed_count, ix_return, dense_store, ix_embedded,
            ix_persisted, batch_size, ix_run, upsert_failed, first_store, first_clean>>
sparseIxVars == <<hash_seed, sparse_store, vectors_to_upsert, search_query, query_sparse>>
ppVars == <<pp_documents, pp_config, doc_idx, all_chunks, chunk_counter, chunk_owner,
            pp_return>>
searchVars == <<sparse_pc, dense_pc, query_embedding, search_env, state_at_start,
                search_trace>>
ingestVars == <<ingester, files, file_idx, ing_documents, ing_return, build_outcome>>
pipeVars == <<search_top_k, use_reranking, search_results, search_return>>
orchVars == <<orch_mode, orch_state, agent_trace, guard_llm_failed>>
stmVars == <<stm_messages, stm_appended, stm_return>>
appVars == <<ingestVars, pipeVars, orchVars, stmVars>>
buildVars == <<ixVars, sparseIxVars, ppVars, appVars, searchVars>>
vars == <<pc, retrVars, normVars, rerankVars, buildVars>>

\* The variables of the index build, while another operation is modelled.
IdleIndex ==
    /\ chunks = <<>>
    /\ ix_pos = 0
    /\ indexed_count = 0
    /\ ix_return = <<>>
    /\ dense_store = {}
    /\ ix_embedded = {}
    /\ ix_persisted = {}
    /\ batch_size = 1
    /\ ix_run = 1
    /\ upsert_failed = FALSE
    /\ first_store = {}
    /\ first_clean = FALSE

IdleSparseIndex ==
    /\ hash_seed = 0
    /\ sparse_store = {}
    /\ vectors_to_upsert = <<>>
    /\ search_query = <<>>
    /\ query_sparse = <<>>

IdlePreprocess ==
    /\ pp_documents = <<>>
    /\ pp_config = <<>>
    /\ doc_idx = 0
    /\ all_chunks = <<>>
    /\ chunk_counter = 0
    /\ chunk_owner = <<>>
    /\ pp_return = <<>>

IdleSearch ==
    /\ sparse_pc = "idle"
    /\ dense_pc = "idle"
    /\ query_embedding = <<>>
    /\ search_env = <<>>
    /\ state_at_start = <<>>
    /\ search_trace = <<>>

IdleIngest ==
    /\ ingester = "none"
    /\ files = <<>>
    /\ file_idx = 0
    /\ ing_documents = <<>>
    /\ ing_return = <<>>
    /\ build_outcome = <<>>

IdlePipelineSearch ==
    /\ search_top_k = 0
    /\ use_reranking = FALSE
    /\ search_results = <<>>
    /\ search_return = <<>>

IdleOrchestrator ==
    /\ orch_mode = "none"
    /\ orch_state = <<>>
    /\ agent_trace = <<>>
    /\ guard_llm_failed = FALSE

IdleMemory ==
    /\ stm_messages = <<>>
    /\ stm_appended = <<>>
    /\ stm_return = <<>>

\* The variables of the application layer, while another operation is modelled.
IdleApp == IdleIngest /\ IdlePipelineSearch /\ IdleOrchestrator /\ IdleMemory

IdleBuild == IdleIndex /\ IdleSparseIndex /\ IdlePreprocess /\ IdleSearch /\ IdleApp

\* Everything but the variables of the dense index build.
notIndexDense == <<retrVars, normVars, rerankVars, sparseIxVars, ppVars, appVars, searchVars>>

\* Everything but the variables of the sparse index build and search.
notIndexSparse == <<retrVars, normVars, rerankVars, dense_store, batch_size, ix_embedded,
                   ppVars, appVars, searchVars>>

\* ------------------------------------------------------------- helpers
Min2(a, b) == IF a <= b THEN a ELSE b
Max2(a, b) == IF a >= b THEN a ELSE b

RECURSIVE Gcd(_, _)
Gcd(a, b) == IF b = 0 THEN a ELSE Gcd(b, a % b)

RECURSIVE LcmUpTo(_)
LcmUpTo(n) == IF n <= 1 THEN 1 ELSE (LcmUpTo(n - 1) * n) \div Gcd(LcmUpTo(n - 1), n)

\* The fixed-point unit of a normalized score: 1.0 is Scale.
Scale == LcmUpTo(MaxScore)

SeqMin(s) == CHOOSE x \in {s[i] : i \in DOMAIN s} : \A j \in DOMAIN s : x <= s[j]
SeqMax(s) == CHOOSE x \in {s[i] : i \in DOMAIN s} : \A j \in DOMAIN s : x >= s[j]

\* Python's sorted(..., key=..., reverse=True), keys[i] being the key of
\* seq[i]: a stable sort, so elements with equal keys keep the order they had
\* in the input.  order is the sorted list of the positions placed so far.
RECURSIVE SortDescFrom(_, _, _)
SortDescFrom(keys, i, order) ==
    IF i > Len(keys) THEN order
    ELSE LET p == Cardinality({j \in DOMAIN order : keys[order[j]] >= keys[i]})
         IN SortDescFrom(keys, i + 1,
                SubSeq(order, 1, p) \o <<i>> \o SubSeq(order, p + 1, Len(order)))

\* Variant: reverse=True is missing, the sort is ascending.
SortAscending(seq, keys) ==
    LET Place(order, i) ==
            LET p == Cardinality({j \in DOMAIN order : keys[order[j]] <= keys[i]})
            IN SubSeq(order, 1, p) \o <<i>> \o SubSeq(order, p + 1, Len(order))
        Ordered[n \in 0..Len(keys)] == IF n = 0 THEN <<>> ELSE Place(Ordered[n - 1], n)
    IN [j \in DOMAIN seq |-> seq[Ordered[Len(keys)][j]]]

SortDesc(seq, keys) ==
    LET order == SortDescFrom(keys, 1, <<>>)
    IN [j \in DOMAIN seq |-> seq[order[j]]]

\* ------------------------------------------- HybridRetriever._normalize_scores
\* Variant: a list of equal scores normalizes to 0.0 instead of 1.0.
NormalizeScoresEqualToZero(s) ==
    IF s = <<>> THEN <<>>
    ELSE [i \in DOMAIN s |->
            IF SeqMax(s) = SeqMin(s) THEN 0
            ELSE ((s[i] - SeqMin(s)) * Scale) \div (SeqMax(s) - SeqMin(s))]

_normalize_scores(s) ==
    IF s = <<>> THEN <<>>
    ELSE LET min_score == SeqMin(s)
             max_score == SeqMax(s)
         IN IF max_score = min_score
            THEN [i \in DOMAIN s |-> Scale]
            ELSE [i \in DOMAIN s |->
                    ((s[i] - min_score) * Scale) \div (max_score - min_score)]

\* ----------------------------------------------- HybridRetriever._fuse_results
\* result_map is a Python dict: insertion ordered, and an assignment to a key
\* it already holds replaces the value where the key stands.
MapIndex(map, id) ==
    IF \E i \in DOMAIN map : map[i].chunk_id = id
    THEN CHOOSE i \in DOMAIN map : map[i].chunk_id = id
    ELSE 0

MapPut(map, entry) ==
    IF MapIndex(map, entry.chunk_id) = 0
    THEN Append(map, entry)
    ELSE [map EXCEPT ![MapIndex(map, entry.chunk_id)] = entry]

SparseEntry(result, norm, w) ==
    [chunk_id |-> result.chunk_id, score |-> result.score,
     sparse_score |-> norm * w, dense_score |-> 0,
     final_score |-> norm * w, retrieval_method |-> "sparse"]

RECURSIVE ProcessSparse(_, _, _, _, _)
ProcessSparse(results, norm, w, i, map) ==
    IF i > Len(results) THEN map
    ELSE ProcessSparse(results, norm, w, i + 1,
                       MapPut(map, SparseEntry(results[i], norm[i], w)))

DenseEntry(result, norm, w) ==
    [chunk_id |-> result.chunk_id, score |-> result.score,
     sparse_score |-> 0, dense_score |-> norm * w,
     final_score |-> norm * w, retrieval_method |-> "dense"]

DenseStep(map, result, norm, w) ==
    LET k == MapIndex(map, result.chunk_id)
    IN IF k # 0
       THEN [map EXCEPT ![k] = [@ EXCEPT !.dense_score = norm * w,
                                         !.final_score = @ + norm * w,
                                         !.retrieval_method = "hybrid"]]
       ELSE Append(map, DenseEntry(result, norm, w))

RECURSIVE ProcessDense(_, _, _, _, _)
ProcessDense(results, norm, w, i, map) ==
    IF i > Len(results) THEN map
    ELSE ProcessDense(results, norm, w, i + 1,
                      DenseStep(map, results[i], norm[i], w))

ScoresOf(results) == [i \in DOMAIN results |-> results[i].score]

FinalScores(map) == [i \in DOMAIN map |-> map[i].final_score]

ResultMap(sparse, dense, sw, dw) ==
    ProcessDense(dense, _normalize_scores(ScoresOf(dense)), dw, 1,
        ProcessSparse(sparse, _normalize_scores(ScoresOf(sparse)), sw, 1, <<>>))

_fuse_results(sparse, dense, sw, dw) ==
    LET result_map == ResultMap(sparse, dense, sw, dw)
    IN SortDesc(result_map, FinalScores(result_map))

\* ---------------------------------------------------------- vector stores
\* A search result as the indexers build it from a store match; the fields
\* the fusion does not read (content, source, section, policy_type) are left out.
Results == [chunk_id : ChunkIds, score : Scores]

SeqsUpTo(S, n) == UNION {[1..k -> S] : k \in 0..n}

DistinctIds(s) == \A i, j \in DOMAIN s : i # j => s[i].chunk_id # s[j].chunk_id

RankedDesc(s) == \A i, j \in DOMAIN s : i < j => s[i].score >= s[j].score

\* What index.query(top_k=k) of a vector store can answer: at most k matches,
\* one per stored id, best score first (matches of equal score in any order).
StoreMatches(k) ==
    {s \in SeqsUpTo(Results, Min2(k, Cardinality(ChunkIds))) :
        DistinctIds(s) /\ RankedDesc(s)}

\* The sparse path: computing the query vector or the store call may throw.
SparseResponses(k) ==
    {[ok |-> FALSE, matches |-> <<>>]}
        \cup {[ok |-> TRUE, matches |-> m] : m \in StoreMatches(k)}

\* The dense path: the embedding call may fail (then _get_embedding answers
\* []), and the store call may throw.
DenseResponses(k) ==
    {[embedded |-> FALSE, ok |-> TRUE, matches |-> <<>>],
     [embedded |-> TRUE, ok |-> FALSE, matches |-> <<>>]}
        \cup {[embedded |-> TRUE, ok |-> TRUE, matches |-> m] : m \in StoreMatches(k)}

\* Variant: SparseIndexer.search lets the exception through to retrieve.
SparseIndexerSearchRaises(resp) ==
    IF resp.ok
    THEN [raised |-> FALSE, results |-> resp.matches]
    ELSE [raised |-> TRUE, results |-> <<>>]

\* SparseIndexer.search: the whole body is inside try/except, an exception
\* is logged and [] returned.
SparseIndexerSearch(resp) ==
    IF resp.ok
    THEN [raised |-> FALSE, results |-> resp.matches]
    ELSE [raised |-> FALSE, results |-> <<>>]

\* DenseIndexer.search: an empty embedding returns [] at once, an exception
\* is logged and [] returned.
DenseIndexerSearch(resp) ==
    IF ~resp.embedded THEN [raised |-> FALSE, results |-> <<>>]
    ELSE IF resp.ok
    THEN [raised |-> FALSE, results |-> resp.matches]
    ELSE [raised |-> FALSE, results |-> <<>>]

\* Variant: the slice keeps one result too many.
TruncateOneMore(seq, k) == SubSeq(seq, 1, Min2(k + 1, Len(seq)))

\* combined_results[:top_k]
Truncate(seq, k) == SubSeq(seq, 1, Min2(k, Len(seq)))

\* ------------------------------------------------ HybridRetriever.retrieve
IdleNorm == scores = <<>> /\ normalized = <<>>

IdleRetrieve ==
    /\ top_k = 1
    /\ sparse_weight = 1
    /\ dense_weight = 1
    /\ sparse_results = <<>>
    /\ dense_results = <<>>
    /\ sparse_failed = FALSE
    /\ dense_failed = FALSE
    /\ fused_results = <<>>
    /\ returned = <<>>

IdleRerank ==
    /\ use_llm = TRUE
    /\ query = {}
    /\ documents = <<>>
    /\ input_documents = <<>>
    /\ judge_log = <<>>
    /\ idx = 0
    /\ reranked_docs = <<>>
    /\ reranked = <<>>
    /\ rerank_result = <<>>

InitRetrieve ==
    /\ pc = "sparse_search"
    /\ top_k \in TopKs
    /\ sparse_weight \in Weights
    /\ dense_weight \in Weights
    /\ sparse_results = <<>>
    /\ dense_results = <<>>
    /\ sparse_failed = FALSE
    /\ dense_failed = FALSE
    /\ fused_results = <<>>
    /\ returned = <<>>
    /\ IdleNorm
    /\ IdleRerank
    /\ IdleBuild

SparseSearch ==
    /\ pc = "sparse_search"
    /\ \E resp \in SparseResponses(top_k * 2) :
        LET out == SparseIndexerSearch(resp)
        IN IF out.raised
           THEN /\ pc' = "raised"
                /\ UNCHANGED <<sparse_results, sparse_failed>>
           ELSE /\ pc' = "dense_search"
                /\ sparse_results' = out.results
                /\ sparse_failed' = ~resp.ok
    /\ UNCHANGED <<sparse_weight, dense_weight, top_k, dense_results,
                   dense_failed, fused_results, returned, normVars, rerankVars, buildVars>>

DenseSearch ==
    /\ pc = "dense_search"
    /\ \E resp \in DenseResponses(top_k * 2) :
        LET out == DenseIndexerSearch(resp)
        IN IF out.raised
           THEN /\ pc' = "raised"
                /\ UNCHANGED <<dense_results, dense_failed>>
           ELSE /\ pc' = "fuse"
                /\ dense_results' = out.results
                /\ dense_failed' = (~resp.embedded \/ ~resp.ok)
    /\ UNCHANGED <<sparse_weight, dense_weight, top_k, sparse_results,
                   sparse_failed, fused_results, returned, normVars, rerankVars, buildVars>>

FuseResults ==
    /\ pc = "fuse"
    /\ fused_results' =
          _fuse_results(sparse_results, dense_results, sparse_weight, dense_weight)
    /\ pc' = "truncate"
    /\ UNCHANGED <<sparse_weight, dense_weight, top_k, sparse_results,
                   dense_results, sparse_failed, dense_failed, returned, normVars, rerankVars, buildVars>>

ReturnTopK ==
    /\ pc = "truncate"
    /\ returned' = Truncate(fused_results, top_k)
    /\ pc' = "retrieve_done"
    /\ UNCHANGED <<sparse_weight, dense_weight, top_k, sparse_results,
                   dense_results, sparse_failed, dense_failed, fused_results,
                   normVars, rerankVars, buildVars>>

NextRetrieve == SparseSearch \/ DenseSearch \/ FuseResults \/ ReturnTopK

SpecRetrieve == InitRetrieve /\ [][NextRetrieve]_vars

\* --------------------------------- _fuse_results applied to any two lists
AnyResults == SeqsUpTo(Results, MaxLen)

InitFuse ==
    /\ pc = "fuse"
    /\ top_k = 1
    /\ sparse_weight \in Weights
    /\ dense_weight \in Weights
    /\ sparse_results \in AnyResults
    /\ dense_results \in AnyResults
    /\ sparse_failed = FALSE
    /\ dense_failed = FALSE
    /\ fused_results = <<>>
    /\ returned = <<>>
    /\ IdleNorm
    /\ IdleRerank
    /\ IdleBuild

NextFuse == FuseResults

SpecFuse == InitFuse /\ [][NextFuse]_vars

\* --------------------------------- _normalize_scores applied to any list
InitNormalize ==
    /\ pc = "normalize"
    /\ scores \in SeqsUpTo(Scores, MaxScoresLen)
    /\ normalized = <<>>
    /\ top_k = 1
    /\ sparse_weight = 1
    /\ dense_weight = 1
    /\ sparse_results = <<>>
    /\ dense_results = <<>>
    /\ sparse_failed = FALSE
    /\ dense_failed = FALSE
    /\ fused_results = <<>>
    /\ returned = <<>>
    /\ IdleRerank
    /\ IdleBuild

NormalizeScores ==
    /\ pc = "normalize"
    /\ normalized' = _normalize_scores(scores)
    /\ pc' = "normalize_done"
    /\ UNCHANGED <<scores, retrVars, rerankVars, buildVars>>

NextNormalize == NormalizeScores

SpecNormalize == InitNormalize /\ [][NextNormalize]_vars

\* ================================================================ Reranker
\* Scores of the reranker are fixed-point integers too: 1.0 is One.
One == 600

\* A field a candidate dict may lack is <<>> when absent and <<v>> when set.
Absent == <<>>
Set(v) == <<v>>
Get(field) == field[1]

\* The candidate text, as far as the reranker reads it: the query terms that
\* occur in content.lower(), and len(content).
Contents ==
    {[terms |-> {"remote", "work", "policy"}, length |-> 500],
     [terms |-> {"remote"}, length |-> 250],
     [terms |-> {}, length |-> 1200]}

Queries == {{}, {"remote", "work", "policy"}}

\* final_score and score as a candidate may carry them: a fused result has
\* both, a plain search result only score, and any dict may have neither.
ScoreFields ==
    {[final_score |-> Set(One), score |-> Set(One \div 2)],
     [final_score |-> Absent, score |-> Set(One \div 2)],
     [final_score |-> Absent, score |-> Absent]}

Candidate(i, c, f) ==
    [chunk_id |-> i, content |-> c, final_score |-> f.final_score,
     score |-> f.score, llm_score |-> Absent, heuristic_score |-> Absent,
     original_score |-> Absent, rerank_score |-> Absent]

CandidateLists ==
    UNION {{[i \in 1..n |-> Candidate(i, cs[i], fs[i])] :
                cs \in [1..n -> Contents], fs \in [1..n -> ScoreFields]} :
           n \in 0..MaxDocs}

\* ------------------------------------------------- GeminiClient.generate
\* What the judge can answer: a numeral (inside or outside 0..10), or words.
NumberOf == [t \in {"-2", "7", "12"} |-> CASE t = "-2" -> 0 - 2 [] t = "7" -> 7 [] t = "12" -> 12]

JudgeTexts == DOMAIN NumberOf \cup {"Highly relevant"}

Apology == "Sorry, I couldn't generate a response right now."

\* The call of the provider: it answers a text or throws.
ApiOutcomes == {[ok |-> TRUE, text |-> t] : t \in JudgeTexts} \cup {[ok |-> FALSE, text |-> ""]}

\* Variant: generate lets the provider's exception through.
GenerateRaises(outcome) ==
    IF outcome.ok THEN [raised |-> FALSE, text |-> outcome.text]
    ELSE [raised |-> TRUE, text |-> ""]

\* generate: the provider's exception is caught and the apology returned.
GeminiClientGenerate(outcome) ==
    IF outcome.ok THEN [raised |-> FALSE, text |-> outcome.text]
    ELSE [raised |-> FALSE, text |-> Apology]

\* float(response.strip()): the value, or ValueError.
ParseFloat(text) ==
    IF text \in DOMAIN NumberOf
    THEN [ok |-> TRUE, value |-> NumberOf[text]]
    ELSE [ok |-> FALSE, value |-> 0]

\* ------------------------------------------------- Reranker._llm_rerank
\* Variant: the clamp to [0,10] is missing.
LlmScoreUnclamped(response) ==
    LET parsed == ParseFloat(response)
    IN IF parsed.ok THEN (parsed.value * One) \div 10 ELSE One \div 2

\* max(0.0, min(10.0, llm_score)) / 10.0, and 0.5 on ValueError
LlmScore(response) ==
    LET parsed == ParseFloat(response)
    IN IF parsed.ok
       THEN (Max2(0, Min2(10, parsed.value)) * One) \div 10
       ELSE One \div 2

\* doc.get('final_score', doc.get('score', 0.0))
OriginalScore(doc) ==
    IF doc.final_score # Absent THEN Get(doc.final_score)
    ELSE IF doc.score # Absent THEN Get(doc.score)
    ELSE 0

\* The dict appended to reranked_docs: a copy of doc with three more fields.
LlmScored(doc, response) ==
    [doc EXCEPT !.llm_score = Set(LlmScore(response)),
                !.original_score = Set(OriginalScore(doc)),
                !.rerank_score = Set((OriginalScore(doc) + LlmScore(response)) \div 2)]

\* Variant: a candidate whose judge response is not a number is left out.
AppendScoredIfNumeric(list, doc, response) ==
    IF ParseFloat(response).ok THEN Append(list, LlmScored(doc, response)) ELSE list

\* reranked_docs.append({**doc, ...})
AppendScored(list, doc, response) == Append(list, LlmScored(doc, response))

RerankScores(docs) == [i \in DOMAIN docs |-> Get(docs[i].rerank_score)]

\* Variant: the loop over the candidates ends after the first one.
LlmLoopEndsEarly(i, docs) == i > 1

\* for doc in documents: the loop has run through the list
LlmLoopDone(i, docs) == i > Len(docs)

\* ------------------------------------------- Reranker._heuristic_rerank
TermCoverage(q, content) ==
    IF q # {}
    THEN (Cardinality({t \in q : t \in content.terms}) * One) \div Cardinality(q)
    ELSE 0

Abs(x) == IF x < 0 THEN 0 - x ELSE x

OptimalLength == 500

LengthScore(content) ==
    Max2(0, Min2(One, One - (Abs(content.length - OptimalLength) * One) \div OptimalLength))

\* Variant: the two weights exchanged.
HeuristicScoreWeightsSwapped(q, content) ==
    (TermCoverage(q, content) * 3 + LengthScore(content) * 7) \div 10

HeuristicScore(q, content) ==
    (TermCoverage(q, content) * 7 + LengthScore(content) * 3) \div 10

\* The fields the loop sets on the caller's dict.
HeuristicScored(q, doc) ==
    [doc EXCEPT !.heuristic_score = Set(HeuristicScore(q, doc.content)),
                !.original_score = Set(OriginalScore(doc)),
                !.rerank_score =
                    Set((OriginalScore(doc) + HeuristicScore(q, doc.content)) \div 2)]

HeuristicLoopDone(i, docs) == i > Len(docs)

\* ------------------------------------------------------ Reranker.rerank
InitRerank ==
    /\ pc = "rerank"
    /\ use_llm \in BOOLEAN
    /\ query \in Queries
    /\ top_k \in TopKs
    /\ documents \in CandidateLists
    /\ input_documents = documents
    /\ judge_log = <<>>
    /\ idx = 0
    /\ reranked_docs = <<>>
    /\ reranked = <<>>
    /\ rerank_result = <<>>
    /\ sparse_weight = 1
    /\ dense_weight = 1
    /\ sparse_results = <<>>
    /\ dense_results = <<>>
    /\ sparse_failed = FALSE
    /\ dense_failed = FALSE
    /\ fused_results = <<>>
    /\ returned = <<>>
    /\ IdleNorm
    /\ IdleBuild

\* rerank, lines 43-49: no candidates, or the choice of the strategy
RerankEmpty ==
    /\ pc = "rerank"
    /\ documents = <<>>
    /\ rerank_result' = <<>>
    /\ pc' = "rerank_done"
    /\ UNCHANGED <<use_llm, query, documents, input_documents, judge_log, idx,
                   reranked_docs, reranked, retrVars, normVars, buildVars>>

RerankDispatch ==
    /\ pc = "rerank"
    /\ documents # <<>>
    /\ pc' = IF use_llm THEN "llm_loop" ELSE "heuristic_loop"
    /\ idx' = 1
    /\ reranked_docs' = <<>>
    /\ UNCHANGED <<use_llm, query, documents, input_documents, judge_log, reranked,
                   rerank_result, retrVars, normVars, buildVars>>

\* One turn of the loop of _llm_rerank.  An exception that leaves the loop
\* is caught by the outer except, which returns documents as they are.
LlmScoreDoc ==
    /\ pc = "llm_loop"
    /\ ~LlmLoopDone(idx, documents)
    /\ \E outcome \in ApiOutcomes :
        LET gen == GeminiClientGenerate(outcome)
        IN IF gen.raised
           THEN /\ reranked' = documents
                /\ pc' = "rerank_truncate"
                /\ UNCHANGED <<idx, reranked_docs>>
           ELSE /\ reranked_docs' = AppendScored(reranked_docs, documents[idx], gen.text)
                /\ idx' = idx + 1
                /\ pc' = "llm_loop"
                /\ UNCHANGED reranked
        /\ judge_log' = Append(judge_log, outcome)
    /\ UNCHANGED <<use_llm, query, documents, input_documents, rerank_result,
                   retrVars, normVars, buildVars>>

\* reranked_docs.sort(key=rerank_score, reverse=True); return reranked_docs
LlmSort ==
    /\ pc = "llm_loop"
    /\ LlmLoopDone(idx, documents)
    /\ reranked_docs' = SortDesc(reranked_docs, RerankScores(reranked_docs))
    /\ reranked' = reranked_docs'
    /\ pc' = "rerank_truncate"
    /\ UNCHANGED <<use_llm, query, documents, input_documents, judge_log, idx,
                   rerank_result, retrVars, normVars, buildVars>>

\* One turn of the loop of _heuristic_rerank: it writes into the caller's dict.
HeuristicScoreDoc ==
    /\ pc = "heuristic_loop"
    /\ ~HeuristicLoopDone(idx, documents)
    /\ documents' = [documents EXCEPT ![idx] = HeuristicScored(query, @)]
    /\ idx' = idx + 1
    /\ UNCHANGED <<pc, use_llm, query, input_documents, judge_log, reranked_docs, reranked,
                   rerank_result, retrVars, normVars, buildVars>>

\* documents.sort(key=rerank_score, reverse=True); return documents
HeuristicSort ==
    /\ pc = "heuristic_loop"
    /\ HeuristicLoopDone(idx, documents)
    /\ documents' = SortDesc(documents, RerankScores(documents))
    /\ reranked' = documents'
    /\ pc' = "rerank_truncate"
    /\ UNCHANGED <<use_llm, query, input_documents, judge_log, idx, reranked_docs,
                   rerank_result, retrVars, normVars, buildVars>>

\* return reranked[:top_k]
RerankReturn ==
    /\ pc = "rerank_truncate"
    /\ rerank_result' = Truncate(reranked, top_k)
    /\ pc' = "rerank_done"
    /\ UNCHANGED <<use_llm, query, documents, input_documents, judge_log, idx,
                   reranked_docs, reranked, retrVars, normVars, buildVars>>

NextRerank ==
    \/ RerankEmpty
    \/ RerankDispatch
    \/ LlmScoreDoc
    \/ LlmSort
    \/ HeuristicScoreDoc
    \/ HeuristicSort
    \/ RerankReturn

SpecRerank == InitRerank /\ [][NextRerank]_vars

\* ========================================================== properties
FuseDone == pc \in {"truncate", "retrieve_done"}

OccursIn(results, id) == \E i \in DOMAIN results : results[i].chunk_id = id

IdsOf(results) == {results[i].chunk_id : i \in DOMAIN results}

\* The weighted contribution the claim names for chunk id `id` of list
\* `results`: x is (normalized score of an occurrence of id) * w, or 0 when
\* the id does not occur.
IsContribution(x, results, id, w) ==
    IF OccursIn(results, id)
    THEN \E i \in DOMAIN results :
            /\ results[i].chunk_id = id
            /\ x = _normalize_scores(ScoresOf(results))[i] * w
    ELSE x = 0

\* C1: every fused result has final_score = sparse_score + dense_score, where
\* sparse_score is the weighted normalized sparse score of its chunk id if the
\* id occurs in the sparse list and 0 otherwise, and dense_score likewise for
\* the dense list; the lists may repeat a chunk id.
C1_FinalScoreIsSumOfContributions ==
    FuseDone =>
        \A k \in DOMAIN fused_results :
            LET r == fused_results[k]
            IN /\ r.final_score = r.sparse_score + r.dense_score
               /\ IsContribution(r.sparse_score, sparse_results, r.chunk_id, sparse_weight)
               /\ IsContribution(r.dense_score, dense_results, r.chunk_id, dense_weight)

\* C2: a fused result is labelled hybrid iff its chunk id occurs in both
\* lists, sparse iff it occurs only in the sparse list, dense iff it occurs
\* only in the dense list; the lists may repeat a chunk id.
C2_MethodTellsWhereTheIdOccurs ==
    FuseDone =>
        \A k \in DOMAIN fused_results :
            LET r == fused_results[k]
                inS == OccursIn(sparse_results, r.chunk_id)
                inD == OccursIn(dense_results, r.chunk_id)
            IN /\ (r.retrieval_method = "hybrid") <=> (inS /\ inD)
               /\ (r.retrieval_method = "sparse") <=> (inS /\ ~inD)
               /\ (r.retrieval_method = "dense") <=> (~inS /\ inD)

AllEqual(s) == \A i, j \in DOMAIN s : s[i] = s[j]

\* C3: _normalize_scores maps [] to [], a non-empty list of equal scores to
\* as many 1.0, and any other list to a list of the same length and order with
\* values in [0,1], the minimum at 0, the maximum at 1, and the order of the
\* scores preserved.
C3_NormalizeScores ==
    pc = "normalize_done" =>
        /\ Len(normalized) = Len(scores)
        /\ scores = <<>> => normalized = <<>>
        /\ (scores # <<>> /\ AllEqual(scores)) =>
                \A i \in DOMAIN normalized : normalized[i] = Scale
        /\ ~AllEqual(scores) =>
                /\ \A i \in DOMAIN scores :
                    /\ 0 <= normalized[i] /\ normalized[i] <= Scale
                    /\ scores[i] = SeqMin(scores) => normalized[i] = 0
                    /\ scores[i] = SeqMax(scores) => normalized[i] = Scale
                /\ \A i, j \in DOMAIN scores :
                    /\ scores[i] < scores[j] => normalized[i] < normalized[j]
                    /\ scores[i] = scores[j] => normalized[i] = normalized[j]

\* A list with a score strictly between its minimum and its maximum has been
\* normalized.
C3_Witness ==
    /\ pc = "normalize_done"
    /\ \E i \in DOMAIN normalized : 0 < normalized[i] /\ normalized[i] < Scale

\* The orders in which a store could have returned the same matches.
Reorderings(results) ==
    {t \in {[i \in DOMAIN results |-> results[f[i]]] :
                f \in Permutations(DOMAIN results)} : RankedDesc(t)}

\* C4: the fused list is in descending final_score order and ties are broken
\* by a rule on the chunks themselves, so the same candidates with the same
\* scores give the same ranking whatever order the stores returned them in.
C4_RankingIndependentOfStoreOrder ==
    FuseDone =>
        /\ \A i, j \in DOMAIN fused_results :
              i < j => fused_results[i].final_score >= fused_results[j].final_score
        /\ \A sp \in Reorderings(sparse_results), dp \in Reorderings(dense_results) :
              _fuse_results(sp, dp, sparse_weight, dense_weight) = fused_results

\* C5: retrieve returns min(top_k, number of distinct chunk ids of the two
\* lists) results with pairwise distinct chunk ids, and no fused chunk left
\* out scores higher than a returned one.
C5_RetrieveReturnsTopK ==
    pc = "retrieve_done" =>
        /\ Len(returned) =
              Min2(top_k, Cardinality(IdsOf(sparse_results) \cup IdsOf(dense_results)))
        /\ DistinctIds(returned)
        /\ IdsOf(returned) \subseteq IdsOf(sparse_results) \cup IdsOf(dense_results)
        /\ IdsOf(fused_results) = IdsOf(sparse_results) \cup IdsOf(dense_results)
        /\ \A k \in DOMAIN fused_results :
              fused_results[k].chunk_id \notin IdsOf(returned) =>
                  \A i \in DOMAIN returned :
                      fused_results[k].final_score <= returned[i].final_score

\* retrieve has cut off a fused chunk.
C5_Witness ==
    /\ pc = "retrieve_done"
    /\ returned # <<>>
    /\ Cardinality(IdsOf(sparse_results) \cup IdsOf(dense_results)) > top_k
    /\ sparse_results # <<>>
    /\ dense_results # <<>>

\* The results of one path alone: in the order of descending weighted
\* normalized score, each labelled with that path's method and carrying 0 for
\* the other path.
OnlyPath(out, results, w, method) ==
    /\ IdsOf(out) \subseteq IdsOf(results)
    /\ DistinctIds(out)
    /\ \A i \in DOMAIN out :
          /\ out[i].retrieval_method = method
          /\ IF method = "dense" THEN out[i].sparse_score = 0
                                 ELSE out[i].dense_score = 0
          /\ \E j \in DOMAIN results :
                /\ results[j].chunk_id = out[i].chunk_id
                /\ out[i].final_score = _normalize_scores(ScoresOf(results))[j] * w
    /\ \A i, j \in DOMAIN out : i < j => out[i].final_score >= out[j].final_score

\* C6: retrieve never raises because a call fails inside a search path; when
\* one path fails the result is the fusion of the other path's results alone,
\* and when both fail it is the empty list.
C6_SearchFailureDegrades ==
    /\ pc # "raised"
    /\ pc = "retrieve_done" =>
        /\ (sparse_failed /\ ~dense_failed) =>
              /\ Len(returned) = Min2(top_k, Len(dense_results))
              /\ OnlyPath(returned, dense_results, dense_weight, "dense")
        /\ (dense_failed /\ ~sparse_failed) =>
              /\ Len(returned) = Min2(top_k, Len(sparse_results))
              /\ OnlyPath(returned, sparse_results, sparse_weight, "sparse")
        /\ (sparse_failed /\ dense_failed) => returned = <<>>

\* The sparse path failed and retrieve returned the dense results.
C6_Witness ==
    /\ pc = "retrieve_done"
    /\ sparse_failed
    /\ ~dense_failed
    /\ Len(returned) = top_k
    /\ Len(dense_results) > top_k

\* ------------------------------------------------------ reranker claims
Occurrences(list, id) == Cardinality({i \in DOMAIN list : list[i].chunk_id = id})

\* C7: for either strategy and any pattern of judge responses, rerank returns
\* each candidate exactly once when top_k >= number of candidates, and at most
\* once for a smaller top_k; a failed judge call drops or duplicates nothing.
C7_EveryCandidateOnce ==
    pc = "rerank_done" =>
        /\ IdsOf(rerank_result) \subseteq IdsOf(input_documents)
        /\ \A d \in DOMAIN input_documents :
              Occurrences(rerank_result, input_documents[d].chunk_id) <= 1
        /\ top_k >= Len(input_documents) =>
              \A d \in DOMAIN input_documents :
                  Occurrences(rerank_result, input_documents[d].chunk_id) = 1

\* The LLM strategy returned every candidate although a judge call failed and
\* another answered words.
C7_Witness ==
    /\ pc = "rerank_done"
    /\ use_llm
    /\ Len(input_documents) = 2
    /\ Len(rerank_result) = 2
    /\ \E i, j \in DOMAIN judge_log :
          /\ ~judge_log[i].ok
          /\ judge_log[j].ok /\ judge_log[j].text \notin DOMAIN NumberOf

Clamp(n, lo, hi) == IF n < lo THEN lo ELSE IF n > hi THEN hi ELSE n

\* The judge score the claim names for the provider's answer to one call;
\* in tenths of One.
ClaimedJudgeScore(outcome) ==
    IF outcome.ok /\ outcome.text \in DOMAIN NumberOf
    THEN Clamp(NumberOf[outcome.text], 0, 10) * (One \div 10)
    ELSE One \div 2

\* C8: under the LLM strategy the judge score of a candidate is
\* clamp(n, 0, 10) / 10 when the response is the number n and 0.5 when it is
\* not a number or the call failed, so it lies in [0,1]; and rerank_score is
\* (original_score + judge score) / 2, original_score being final_score, or
\* score when there is no final_score.
C8_LlmScoreAndCombination ==
    (use_llm /\ pc \in {"llm_loop", "rerank_truncate", "rerank_done"}) =>
        \A k \in DOMAIN reranked_docs :
            LET d == reranked_docs[k]
                in == input_documents[d.chunk_id]
                judge == ClaimedJudgeScore(judge_log[d.chunk_id])
            IN /\ d.llm_score = Set(judge)
               /\ 0 <= Get(d.llm_score) /\ Get(d.llm_score) <= One
               /\ in.final_score # Absent =>
                      2 * Get(d.rerank_score) = Get(in.final_score) + judge
               /\ (in.final_score = Absent /\ in.score # Absent) =>
                      2 * Get(d.rerank_score) = Get(in.score) + judge

\* The LLM strategy has scored an answer above 10, an answer below 0 or a
\* failed call, for a candidate without final_score.
C8_Witness ==
    /\ pc = "rerank_done"
    /\ use_llm
    /\ Len(judge_log) = 2
    /\ judge_log[1].ok /\ judge_log[1].text = "12"
    /\ ~judge_log[2].ok
    /\ input_documents[1].final_score = Absent
    /\ input_documents[1].score # Absent

AllScored(list) == \A i \in DOMAIN list : list[i].rerank_score # Absent

\* C9: the ordering step comes only after a score has been recorded for
\* every candidate: what a strategy hands back is either every candidate,
\* each with its rerank_score, or the candidates untouched in their order.
C9_SortOnlyAfterAllScored ==
    pc \in {"rerank_truncate", "rerank_done"} =>
        /\ IdsOf(reranked) = IdsOf(input_documents)
        /\ Len(reranked) = Len(input_documents)
        /\ AllScored(reranked) \/ reranked = input_documents
        /\ pc = "rerank_done" =>
              AllScored(rerank_result) \/ rerank_result = Truncate(input_documents, top_k)

\* The sort has moved the second candidate in front of the first.
C9_Witness ==
    /\ pc = "rerank_done"
    /\ Len(input_documents) = 2
    /\ Len(rerank_result) = 2
    /\ rerank_result[1].chunk_id = 2
    /\ AllScored(rerank_result)

\* C10: under both strategies rerank returns min(top_k, number of candidates)
\* results in non-increasing order of rerank_score, each carrying a
\* rerank_score, and no candidate left out has a higher rerank_score than a
\* returned one.
C10_RerankReturnsTopKByScore ==
    pc = "rerank_done" =>
        /\ Len(rerank_result) = Min2(top_k, Len(input_documents))
        /\ AllScored(rerank_result)
        /\ \A i, j \in DOMAIN rerank_result :
              i < j => Get(rerank_result[i].rerank_score) >= Get(rerank_result[j].rerank_score)
        /\ AllScored(reranked)
        /\ IdsOf(reranked) = IdsOf(input_documents)
        /\ \A k \in DOMAIN reranked :
              reranked[k].chunk_id \notin IdsOf(rerank_result) =>
                  \A i \in DOMAIN rerank_result :
                      Get(reranked[k].rerank_score) <= Get(rerank_result[i].rerank_score)

\* rerank has cut off a candidate that scored strictly lower than the one it
\* returned.
C10_Witness ==
    /\ pc = "rerank_done"
    /\ Len(input_documents) = 2
    /\ Len(rerank_result) = 1
    /\ \E k \in DOMAIN reranked :
          /\ reranked[k].chunk_id # rerank_result[1].chunk_id
          /\ Get(reranked[k].rerank_score) < Get(rerank_result[1].rerank_score)

\* ================================================== DenseIndexer.index_documents
\* src/kb_pipeline/indexing/index_dense.py

MaxChunks == 3
MaxBatch == 2

\* The chunks the preprocessor hands to the indexers: distinct ids, one text each.
ChunkAt(n) == [id |-> <<"chunk", n>>, text |-> <<"text", n>>, tokens |-> 2 * n]

ChunkLists == {[n \in 1..len |-> ChunkAt(n)] : len \in 0..MaxChunks}

\* The vector the embedding model computes from a text; equal texts give equal vectors.
Embedding(text) == <<"embedding", text>>

\* What one call of the embedding model can do.
BatchOutcomes == {"ok", "short", "raises"}

\* _get_embeddings_batch, lines 73-89: the vectors of the texts, [] on an exception.
\* "short" is a provider answer with one vector too few.
GetEmbeddingsBatch(texts, outcome) ==
    CASE outcome = "ok" -> [n \in 1..Len(texts) |-> Embedding(texts[n])]
      [] outcome = "short" -> [n \in 1..(Len(texts) - 1) |-> Embedding(texts[n])]
      [] OTHER -> <<>>

\* _get_embedding, lines 54-71: the vector of the text, [] on an exception.
GetEmbedding(text, ok) == IF ok THEN <<Embedding(text)>> ELSE <<>>

\* lines 123-127: the individual fallback appends the vectors that were computed.
RECURSIVE IndividualEmbeddings(_, _, _)
IndividualEmbeddings(texts, ok, n) ==
    IF n > Len(texts) THEN <<>>
    ELSE GetEmbedding(texts[n], ok[n]) \o IndividualEmbeddings(texts, ok, n + 1)

\* lines 118-127: the batch call, then the fallback when it is empty or mismatched.
BatchEmbeddings(texts, outcome, ok) ==
    LET embeddings == GetEmbeddingsBatch(texts, outcome)
    IN IF embeddings = <<>> \/ Len(embeddings) # Len(texts)
       THEN IndividualEmbeddings(texts, ok, 1)
       ELSE embeddings

\* The ids of the batch whose own embedding was computed.
OwnEmbeddingSucceeded(batch, outcome, ok) ==
    IF outcome = "ok" /\ batch # <<>>
    THEN {batch[n].id : n \in 1..Len(batch)}
    ELSE {batch[n].id : n \in {m \in 1..Len(batch) : ok[m]}}

\* lines 134-148: zip(batch_chunks, embeddings) pairs by position and stops at the shorter.
DenseVectors(batch, embeddings) ==
    [n \in 1..Min2(Len(batch), Len(embeddings)) |->
        [id |-> batch[n].id, values |-> embeddings[n], text |-> batch[n].text,
         tokens |-> batch[n].tokens]]

\* Pinecone upsert: a record replaces the stored record of the same id.
Upsert(store, vectors) ==
    LET new == {vectors[n] : n \in 1..Len(vectors)}
    IN {r \in store : \A v \in new : v.id # r.id} \cup new

\* chunks[i:i + batch_size], line 110, with the 1-based position pos.
BatchAt(list, pos, size) == SubSeq(list, pos, Min2(pos + size - 1, Len(list)))

InitIndexDense ==
    /\ pc = "index_batch"
    /\ chunks \in ChunkLists
    /\ batch_size \in 1..MaxBatch
    /\ ix_pos = 1
    /\ indexed_count = 0
    /\ ix_return = <<>>
    /\ dense_store = {}
    /\ ix_embedded = {}
    /\ ix_persisted = {}
    /\ ix_run = 1
    /\ upsert_failed = FALSE
    /\ first_store = {}
    /\ first_clean = FALSE
    /\ IdleRetrieve
    /\ IdleNorm
    /\ IdleRerank
    /\ IdleSparseIndex
    /\ IdlePreprocess
    /\ IdleApp
    /\ IdleSearch

\* One iteration of the batch loop, lines 109-153. An exception of upsert leaves the
\* loop for the handler of lines 158-160, which returns 0.
IndexBatch ==
    /\ pc = "index_batch"
    /\ ix_pos <= Len(chunks)
    /\ LET batch == BatchAt(chunks, ix_pos, batch_size)
           texts == [n \in 1..Len(batch) |-> batch[n].text]
       IN \E outcome \in BatchOutcomes, ok \in [1..Len(batch) -> BOOLEAN],
             upsert_ok \in BOOLEAN :
            LET embeddings == BatchEmbeddings(texts, outcome, ok)
                vectors == DenseVectors(batch, embeddings)
            IN /\ ix_embedded' = ix_embedded \cup OwnEmbeddingSucceeded(batch, outcome, ok)
               /\ IF embeddings = <<>>
                  THEN /\ ix_pos' = ix_pos + batch_size
                       /\ UNCHANGED <<pc, indexed_count, ix_return, dense_store,
                                      ix_persisted, upsert_failed>>
                  ELSE IF upsert_ok
                  THEN /\ dense_store' = Upsert(dense_store, vectors)
                       /\ ix_persisted' = ix_persisted
                              \cup {vectors[n].id : n \in 1..Len(vectors)}
                       /\ indexed_count' = indexed_count + Len(vectors)
                       /\ ix_pos' = ix_pos + batch_size
                       /\ UNCHANGED <<pc, ix_return, upsert_failed>>
                  ELSE /\ upsert_failed' = TRUE
                       /\ ix_return' = <<0>>
                       /\ pc' = "index_done"
                       /\ UNCHANGED <<ix_pos, indexed_count, dense_store, ix_persisted>>
    /\ UNCHANGED <<chunks, batch_size, ix_run, first_store, first_clean,
                   notIndexDense>>

\* line 156: return indexed_count.
IndexReturn ==
    /\ pc = "index_batch"
    /\ ix_pos > Len(chunks)
    /\ ix_return' = <<indexed_count>>
    /\ pc' = "index_done"
    /\ UNCHANGED <<chunks, ix_pos, indexed_count, dense_store, ix_embedded, ix_persisted,
                   batch_size, ix_run, upsert_failed, first_store, first_clean,
                   notIndexDense>>

\* The build is run again on the same chunk list, into the same store.
IndexAgain ==
    /\ pc = "index_done"
    /\ ix_run = 1
    /\ ix_run' = 2
    /\ first_store' = dense_store
    /\ first_clean' = (~upsert_failed /\ ix_embedded = {chunks[n].id : n \in 1..Len(chunks)})
    /\ ix_pos' = 1
    /\ indexed_count' = 0
    /\ ix_return' = <<>>
    /\ ix_embedded' = {}
    /\ ix_persisted' = {}
    /\ upsert_failed' = FALSE
    /\ pc' = "index_batch"
    /\ UNCHANGED <<chunks, batch_size, dense_store, notIndexDense>>

NextIndexDense == IndexBatch \/ IndexReturn \/ IndexAgain

SpecIndexDense == InitIndexDense /\ [][NextIndexDense]_vars

\* ================================================================ SparseIndexer
\* src/kb_pipeline/indexing/index_sparse.py

MaxSeed == 2

\* Python keys the hash of a str with a seed drawn when the process starts.
HashSeeds == 1..MaxSeed

\* The words of a chunk text, already lower-case and free of punctuation.
WordsOf(text) ==
    CASE text[2] = 1 -> <<"annual", "leave", "of", "staff">>
      [] text[2] = 2 -> <<"sick", "leave", "or", "leave">>
      [] OTHER -> <<"salary", "of", "staff">>

SearchQueries == {<<"leave">>, <<"salary", "of", "staff">>, <<"bonus", "leave">>}

WordLength(word) ==
    CASE word \in {"of", "or"} -> 2
      [] word \in {"sick"} -> 4
      [] word \in {"leave", "staff", "bonus"} -> 5
      [] OTHER -> 6

LongerThanTwo(word) == WordLength(word) > 2

\* _tokenize, lines 55-61: the words of more than two characters.
_tokenize(words) == SelectSeq(words, LongerThanTwo)

WordNumber(word) ==
    CASE word = "annual" -> 1
      [] word = "leave" -> 2
      [] word = "staff" -> 3
      [] word = "sick" -> 4
      [] word = "salary" -> 5
      [] OTHER -> 6

\* hash(term): a signed integer fixed by the term and the seed of the process, and
\* for one term different in processes of different seeds.
StrHash(term, seed) == ((WordNumber(term) * 7919 * seed + 104729) % 200003) - 100001

HashSpace == 100000

\* line 89
TermHash(term, seed) == Abs(StrHash(term, seed)) % HashSpace

\* Counter(tokens), line 80: the distinct tokens in the order of first occurrence.
RECURSIVE CounterKeys(_)
CounterKeys(tokens) ==
    IF tokens = <<>> THEN <<>>
    ELSE LET front == CounterKeys(SubSeq(tokens, 1, Len(tokens) - 1))
             last == tokens[Len(tokens)]
         IN IF \E n \in 1..Len(front) : front[n] = last THEN front
            ELSE Append(front, last)

Freq(term, tokens) == Cardinality({n \in 1..Len(tokens) : tokens[n] = term})

\* line 93 with k1 = 1.5, b = 0.75 and avg_doc_length = 0 (lines 40-45), as the
\* fraction <<numerator, denominator>>:
\* freq / (freq + 1.5 * (0.25 + 0.75 * doc_length / 1)), both sides times 8.
TfScore(freq, doc_length) == <<8 * freq, 8 * freq + 3 + 9 * doc_length>>

\* _compute_bm25_sparse_vector, lines 63-101. doc_length is Absent for None.
\* The field terms records which term each position stands for.
_compute_bm25_sparse_vector(words, doc_length, seed) ==
    LET tokens == _tokenize(words)
        length == IF doc_length = Absent THEN Len(tokens) ELSE Get(doc_length)
        terms == CounterKeys(tokens)
    IN [indices |-> [n \in 1..Len(terms) |-> TermHash(terms[n], seed)],
        values |-> [n \in 1..Len(terms) |-> TfScore(Freq(terms[n], tokens), length)],
        terms |-> terms]

\* index_documents, lines 115-141
SparseVectors(list, seed) ==
    [n \in 1..Len(list) |->
        [id |-> list[n].id,
         sparse_values |->
             _compute_bm25_sparse_vector(WordsOf(list[n].text), Set(list[n].tokens), seed),
         text |-> list[n].text,
         tokens |-> list[n].tokens]]

\* line 144
SparseBatchSize == 100

InitIndexSparse ==
    /\ pc = "sparse_vectors"
    /\ chunks \in ChunkLists
    /\ hash_seed \in HashSeeds
    /\ sparse_store = {}
    /\ vectors_to_upsert = <<>>
    /\ search_query = <<>>
    /\ query_sparse = <<>>
    /\ ix_pos = 0
    /\ indexed_count = 0
    /\ ix_return = <<>>
    /\ ix_persisted = {}
    /\ ix_run = 1
    /\ upsert_failed = FALSE
    /\ first_store = {}
    /\ first_clean = FALSE
    /\ dense_store = {}
    /\ batch_size = 1
    /\ ix_embedded = {}
    /\ IdleRetrieve
    /\ IdleNorm
    /\ IdleRerank
    /\ IdlePreprocess
    /\ IdleApp
    /\ IdleSearch

\* index_documents, lines 112-141: the vectors of all the chunks.
SparseBuildVectors ==
    /\ pc = "sparse_vectors"
    /\ vectors_to_upsert' = SparseVectors(chunks, hash_seed)
    /\ ix_pos' = 1
    /\ indexed_count' = 0
    /\ pc' = "sparse_upsert"
    /\ UNCHANGED <<chunks, ix_return, ix_persisted, ix_run, upsert_failed, first_store,
                   first_clean, hash_seed, sparse_store, search_query, query_sparse,
                   notIndexSparse>>

\* One iteration of the upsert loop, lines 147-151; an exception of upsert is
\* handled at lines 157-159, which return 0.
SparseUpsertBatch ==
    /\ pc = "sparse_upsert"
    /\ ix_pos <= Len(vectors_to_upsert)
    /\ LET batch == BatchAt(vectors_to_upsert, ix_pos, SparseBatchSize)
       IN \E upsert_ok \in BOOLEAN :
            IF upsert_ok
            THEN /\ sparse_store' = Upsert(sparse_store, batch)
                 /\ ix_persisted' = ix_persisted \cup {batch[n].id : n \in 1..Len(batch)}
                 /\ indexed_count' = indexed_count + Len(batch)
                 /\ ix_pos' = ix_pos + SparseBatchSize
                 /\ UNCHANGED <<pc, ix_return, upsert_failed>>
            ELSE /\ upsert_failed' = TRUE
                 /\ ix_return' = <<0>>
                 /\ pc' = "index_done"
                 /\ UNCHANGED <<ix_pos, indexed_count, sparse_store, ix_persisted>>
    /\ UNCHANGED <<chunks, ix_run, first_store, first_clean, hash_seed, vectors_to_upsert,
                   search_query, query_sparse, notIndexSparse>>

\* lines 153-154: return total_upserted.
SparseIndexReturn ==
    /\ pc = "sparse_upsert"
    /\ ix_pos > Len(vectors_to_upsert)
    /\ ix_return' = <<indexed_count>>
    /\ pc' = "index_done"
    /\ UNCHANGED <<chunks, ix_pos, indexed_count, ix_persisted, ix_run, upsert_failed,
                   first_store, first_clean, sparseIxVars, notIndexSparse>>

\* The build job is run again, in a new process, on the same chunk list and store.
SparseIndexAgain ==
    /\ pc = "index_done"
    /\ ix_run = 1
    /\ ix_run' = 2
    /\ hash_seed' \in HashSeeds
    /\ first_store' = sparse_store
    /\ first_clean' = ~upsert_failed
    /\ vectors_to_upsert' = <<>>
    /\ ix_pos' = 0
    /\ indexed_count' = 0
    /\ ix_return' = <<>>
    /\ ix_persisted' = {}
    /\ upsert_failed' = FALSE
    /\ pc' = "sparse_vectors"
    /\ UNCHANGED <<chunks, sparse_store, search_query, query_sparse, notIndexSparse>>

\* The query server starts, a process of its own, and receives a query.
StartQueryServer ==
    /\ pc = "index_done"
    /\ hash_seed' \in HashSeeds
    /\ search_query' \in SearchQueries
    /\ pc' = "query_vector"
    /\ UNCHANGED <<ixVars, sparse_store, vectors_to_upsert, query_sparse,
                   retrVars, normVars, rerankVars, ppVars, appVars, searchVars>>

\* search, line 174
SparseQueryVector ==
    /\ pc = "query_vector"
    /\ query_sparse' = <<_compute_bm25_sparse_vector(search_query, Absent, hash_seed)>>
    /\ pc' = "query_vector_done"
    /\ UNCHANGED <<ixVars, hash_seed, sparse_store, vectors_to_upsert, search_query,
                   retrVars, normVars, rerankVars, ppVars, appVars, searchVars>>

NextIndexSparse ==
    \/ SparseBuildVectors
    \/ SparseUpsertBatch
    \/ SparseIndexReturn
    \/ SparseIndexAgain
    \/ StartQueryServer
    \/ SparseQueryVector

SpecIndexSparse == InitIndexSparse /\ [][NextIndexSparse]_vars

\* ========================================================= DocumentPreprocessor
\* src/kb_pipeline/preprocessor/preprocess.py
\* A text is the sequence of its characters, a document's content the sequence of
\* the lines content.split('\n') gives.

MaxDocuments == 2

Whitespace == {" ", "\n"}
SentenceEnd == {".", "!", "?"}

RECURSIVE LStrip(_)
LStrip(text) ==
    IF text # <<>> /\ Head(text) \in Whitespace THEN LStrip(Tail(text)) ELSE text

RECURSIVE RStrip(_)
RStrip(text) ==
    IF text # <<>> /\ text[Len(text)] \in Whitespace
    THEN RStrip(SubSeq(text, 1, Len(text) - 1))
    ELSE text

\* str.strip
Strip(text) == RStrip(LStrip(text))

\* sep.join(parts)
RECURSIVE Join(_, _)
Join(sep, parts) ==
    IF parts = <<>> THEN <<>>
    ELSE IF Len(parts) = 1 THEN parts[1]
    ELSE parts[1] \o <<sep>> \o Join(sep, Tail(parts))

\* text[-n:]; for n = 0 the slice [-0:] is the whole text.
LastChars(text, n) ==
    IF n = 0 \/ n >= Len(text) THEN text
    ELSE SubSeq(text, Len(text) - n + 1, Len(text))

\* _estimate_tokens, lines 265-275
_estimate_tokens(text) == Len(text) \div 4

RECURSIVE LeadingHashes(_)
LeadingHashes(line) ==
    IF line # <<>> /\ Head(line) = "#" THEN 1 + LeadingHashes(Tail(line)) ELSE 0

\* The length of group 1 when heading_pattern (line 99) matches the line, else 0:
\* two or three '#', then whitespace, then at least one more character.
HeadingLevel(line) ==
    LET hashes == LeadingHashes(line)
    IN IF hashes \in {2, 3} /\ Len(line) >= hashes + 2 /\ line[hashes + 1] \in Whitespace
       THEN hashes
       ELSE 0

\* match.group(2).strip(), line 117
HeadingTitle(line) == Strip(SubSeq(line, HeadingLevel(line) + 1, Len(line)))

\* lines 107-112 and 133-138: the section is kept when its heading and its lines
\* are not empty.
SaveSection(heading, text, sections) ==
    IF heading # Absent /\ Get(heading) # <<>> /\ text # <<>>
    THEN Append(sections, [heading |-> Get(heading), text |-> Strip(Join("\n", text))])
    ELSE sections

\* The loop of _parse_sections, lines 105-130, from line n on.
RECURSIVE ParseLines(_, _, _, _, _)
ParseLines(lines, n, heading, text, sections) ==
    IF n > Len(lines) THEN SaveSection(heading, text, sections)
    ELSE IF HeadingLevel(lines[n]) > 0
         THEN ParseLines(lines, n + 1, Set(HeadingTitle(lines[n])), <<lines[n]>>,
                         SaveSection(heading, text, sections))
    ELSE IF heading # Absent
         THEN ParseLines(lines, n + 1, heading, Append(text, lines[n]), sections)
    ELSE IF Strip(lines[n]) # <<>>
         THEN ParseLines(lines, n + 1, Set(<<"Introduction">>), <<lines[n]>>, sections)
    ELSE ParseLines(lines, n + 1, heading, text, sections)

\* _parse_sections, lines 86-144 (the level of a section is never read and left out)
_parse_sections(content) == ParseLines(content, 1, Absent, <<>>, <<>>)

RECURSIVE SkipWhitespace(_, _)
SkipWhitespace(text, n) ==
    IF n <= Len(text) /\ text[n] \in Whitespace THEN SkipWhitespace(text, n + 1) ELSE n

\* re.split(r'(?<=[.!?])\s+', text), line 262: the text is cut at every run of
\* whitespace that follows a '.', '!' or '?'.
RECURSIVE SplitAfterSentenceEnd(_, _, _)
SplitAfterSentenceEnd(text, n, piece) ==
    IF n > Len(text) THEN <<piece>>
    ELSE IF n > 1 /\ text[n] \in Whitespace /\ text[n - 1] \in SentenceEnd
         THEN <<piece>> \o SplitAfterSentenceEnd(text, SkipWhitespace(text, n), <<>>)
    ELSE SplitAfterSentenceEnd(text, n + 1, Append(piece, text[n]))

NotBlank(text) == Strip(text) # <<>>

\* _split_sentences, lines 250-263
_split_sentences(text) ==
    LET pieces == SelectSeq(SplitAfterSentenceEnd(text, 1, <<>>), NotBlank)
    IN [n \in 1..Len(pieces) |-> Strip(pieces[n])]

\* The loop of _split_by_tokens, lines 227-240, from sentence n on, and lines 242-246.
RECURSIVE SplitLoop(_, _, _, _, _, _)
SplitLoop(sentences, n, current_chunk, current_length, out, config) ==
    IF n > Len(sentences)
    THEN IF current_chunk # <<>> THEN Append(out, Join(" ", current_chunk)) ELSE out
    ELSE LET sentence == sentences[n]
             sentence_length == Len(sentence)
             joined == Join(" ", current_chunk)
             overlap_text == LastChars(joined, config.overlap_tokens * 4)
         IN IF current_length > 0
               /\ current_length + sentence_length > config.target_tokens * 4
            THEN SplitLoop(sentences, n + 1, <<overlap_text, sentence>>,
                           Len(overlap_text) + sentence_length, Append(out, joined), config)
            ELSE SplitLoop(sentences, n + 1, Append(current_chunk, sentence),
                           current_length + sentence_length, out, config)

\* What the loop of _split_by_tokens carries over each time it emits a chunk, from
\* sentence n on: the chunk appended at line 235 and overlap_text of line 238.
RECURSIVE SplitCarries(_, _, _, _, _)
SplitCarries(sentences, n, current_chunk, current_length, config) ==
    IF n > Len(sentences) THEN <<>>
    ELSE LET sentence == sentences[n]
             sentence_length == Len(sentence)
             joined == Join(" ", current_chunk)
             overlap_text == LastChars(joined, config.overlap_tokens * 4)
         IN IF current_length > 0
               /\ current_length + sentence_length > config.target_tokens * 4
            THEN <<[emitted |-> joined, overlap_text |-> overlap_text]>>
                 \o SplitCarries(sentences, n + 1, <<overlap_text, sentence>>,
                                 Len(overlap_text) + sentence_length, config)
            ELSE SplitCarries(sentences, n + 1, Append(current_chunk, sentence),
                              current_length + sentence_length, config)

\* Variant: the text is cut every target_tokens * 4 characters, wherever that falls.
SplitByCharacters(text, config) ==
    LET size == config.target_tokens * 4
        count == (Len(text) + size - 1) \div size
    IN [k \in 1..count |-> SubSeq(text, (k - 1) * size + 1, Min2(k * size, Len(text)))]

\* _split_by_tokens, lines 209-248
_split_by_tokens(text, config) == SplitLoop(_split_sentences(text), 1, <<>>, 0, <<>>, config)

RECURSIVE AfterLastSlash(_)
AfterLastSlash(path) ==
    IF \E n \in 1..Len(path) : path[n] = "/"
    THEN AfterLastSlash(Tail(path))
    ELSE path

RECURSIVE BeforeFirstDot(_)
BeforeFirstDot(name) ==
    IF name = <<>> \/ Head(name) = "." THEN <<>>
    ELSE <<Head(name)>> \o BeforeFirstDot(Tail(name))

DigitChar(d) == <<"0", "1", "2", "3", "4", "5", "6", "7", "8", "9">>[d + 1]

RECURSIVE Decimal(_)
Decimal(n) == IF n < 10 THEN <<DigitChar(n)>> ELSE Append(Decimal(n \div 10), DigitChar(n % 10))

\* f"{index:03d}": the decimal digits, filled with zeros to the width 3.
ZeroPad3(index) ==
    LET digits == Decimal(index)
    IN [n \in 1..(3 - Min2(3, Len(digits))) |-> "0"] \o digits

\* _generate_chunk_id, lines 298-313
_generate_chunk_id(source_file, index) ==
    <<"s", "o", "f", "t", "v", "e", "n", "c", "e", "_">>
        \o BeforeFirstDot(AfterLastSlash(source_file)) \o <<"_">> \o ZeroPad3(index)

\* sub in text
Contains(text, sub) ==
    \E n \in 1..(Len(text) - Len(sub) + 1) : SubSeq(text, n, n + Len(sub) - 1) = sub

\* _extract_policy_type, lines 277-296; the file names of the model are lower-case.
_extract_policy_type(filename) ==
    IF Contains(filename, <<"h", "r">>)
       \/ Contains(filename, <<"e", "m", "p", "l", "o", "y", "e", "e">>)
    THEN "HR Policy"
    ELSE IF Contains(filename, <<"s", "e", "c", "u", "r", "i", "t", "y">>)
            \/ Contains(filename, <<"d", "a", "t", "a">>)
    THEN "Security Policy"
    ELSE IF Contains(filename, <<"h", "a", "n", "d", "b", "o", "o", "k">>)
            \/ Contains(filename, <<"c", "o", "m", "p", "a", "n", "y">>)
    THEN "Company Policy"
    ELSE "General Policy"

\* The chunk dictionary of lines 175-186 and 196-207.
Chunk(text, heading, source_file, policy_type, index) ==
    [id |-> _generate_chunk_id(source_file, index),
     text |-> text,
     metadata |-> [section |-> heading,
                   policy_type |-> policy_type,
                   source_file |-> source_file,
                   chunk_index |-> index,
                   tokens |-> _estimate_tokens(text)]]

\* A _chunk_section that splits every section by tokens.
ChunkSectionAlwaysSplits(section, source_file, policy_type, start_index, config) ==
    LET sub_chunks == _split_by_tokens(section.text, config)
    IN [n \in 1..Len(sub_chunks) |->
           Chunk(sub_chunks[n], section.heading, source_file, policy_type,
                 start_index + n - 1)]

\* _chunk_section, lines 146-207
_chunk_section(section, source_file, policy_type, start_index, config) ==
    IF _estimate_tokens(section.text) <= config.max_tokens
    THEN <<Chunk(section.text, section.heading, source_file, policy_type, start_index)>>
    ELSE LET sub_chunks == _split_by_tokens(section.text, config)
         IN [n \in 1..Len(sub_chunks) |->
                Chunk(sub_chunks[n], section.heading, source_file, policy_type,
                      start_index + n - 1)]

\* A counter that does not advance.
NextCounterStuck(counter, section_chunks) == counter

\* line 79: chunk_counter += len(section_chunks)
NextCounter(counter, section_chunks) == counter + Len(section_chunks)

\* The loop over the sections of one document, lines 70-79, from section n on:
\* the chunks it adds to all_chunks and the chunk_counter it ends with.
RECURSIVE ChunkSections(_, _, _, _, _, _)
ChunkSections(sections, n, source_file, policy_type, counter, config) ==
    IF n > Len(sections) THEN [chunks |-> <<>>, counter |-> counter]
    ELSE LET section_chunks ==
                 _chunk_section(sections[n], source_file, policy_type, counter, config)
             rest == ChunkSections(sections, n + 1, source_file, policy_type,
                                   NextCounter(counter, section_chunks), config)
         IN [chunks |-> section_chunks \o rest.chunks, counter |-> rest.counter]

\* For each chunk ChunkSections adds, the document and the section it comes from.
RECURSIVE SectionOwners(_, _, _, _)
SectionOwners(sections, n, doc, config) ==
    IF n > Len(sections) THEN <<>>
    ELSE [k \in 1..Len(_chunk_section(sections[n], <<>>, "", 0, config)) |-> <<doc, n>>]
             \o SectionOwners(sections, n + 1, doc, config)

\* Lines of documents.
LineH2 == <<"#", "#", " ", "A">>
LineH3 == <<"#", "#", "#", " ", "B">>
LineH4 == <<"#", "#", "#", "#", " ", "C">>
LineBlankTitle == <<"#", "#", " ", " ">>
LineShort == <<"a", "b", ".">>
LineLong == <<"a", "b", ".", " ", "c", "d", "e", "f", "g", "h", ".", " ",
              "i", "j", "k", "l", "m", "n", ".">>
LineOneSentence == <<"a", "b", "c", "d", "e", "f", "g", "h", "i", "j", "k", "l", "?">>

DocumentContents ==
    { << <<>> >>,
      <<LineH2, LineShort>>,
      <<LineH2, LineShort, LineShort>>,
      <<LineShort, <<>>, LineH2, LineLong>>,
      <<LineH2, LineLong, LineH3, LineShort, LineH2>>,
      <<LineH4, LineBlankTitle, LineShort>>,
      <<LineH3, LineOneSentence, LineShort>> }

Sources ==
    { <<"d", "/", "h", "r", ".", "m", "d">>,
      <<"x", "/", "h", "r", ".", "t", "x", "t">>,
      <<"a", "_", "0", "0", "1", ".", "m", "d">> }

Documents == [source : Sources, content : DocumentContents]

Configs ==
    [target_tokens : 1..2, max_tokens : 2..3, overlap_tokens : 0..1, min_tokens : {1}]

InitPreprocess ==
    /\ pc = "preprocess"
    /\ pp_documents \in SeqsUpTo(Documents, MaxDocuments)
    /\ pp_config \in Configs
    /\ doc_idx = 0
    /\ all_chunks = <<>>
    /\ chunk_counter = 0
    /\ chunk_owner = <<>>
    /\ pp_return = <<>>
    /\ IdleRetrieve
    /\ IdleNorm
    /\ IdleRerank
    /\ IdleIndex
    /\ IdleSparseIndex
    /\ IdleSearch
    /\ IdleApp

\* One iteration of the loop over the documents, lines 60-79.
PreprocessDocument ==
    /\ pc = "preprocess"
    /\ doc_idx < Len(pp_documents)
    /\ LET doc == pp_documents[doc_idx + 1]
           policy_type == _extract_policy_type(doc.source)
           sections == _parse_sections(doc.content)
           added == ChunkSections(sections, 1, doc.source, policy_type, chunk_counter,
                                  pp_config)
       IN /\ all_chunks' = all_chunks \o added.chunks
          /\ chunk_counter' = added.counter
          /\ chunk_owner' = chunk_owner \o SectionOwners(sections, 1, doc_idx + 1, pp_config)
    /\ doc_idx' = doc_idx + 1
    /\ UNCHANGED <<pc, pp_documents, pp_config, pp_return, retrVars, normVars, rerankVars,
                   ixVars, sparseIxVars, searchVars, appVars>>

\* line 84: return all_chunks
PreprocessReturn ==
    /\ pc = "preprocess"
    /\ doc_idx = Len(pp_documents)
    /\ pp_return' = <<all_chunks>>
    /\ pc' = "preprocess_done"
    /\ UNCHANGED <<pp_documents, pp_config, doc_idx, all_chunks, chunk_counter, chunk_owner,
                   retrVars, normVars, rerankVars, ixVars, sparseIxVars, searchVars, appVars>>

NextPreprocess == PreprocessDocument \/ PreprocessReturn

SpecPreprocess == InitPreprocess /\ [][NextPreprocess]_vars

\* ============================================ the two searches of one retrieve call
\* src/kb_pipeline/retrieval/hybrid_retriever.py, lines 50-63, with
\* SparseIndexer.search and DenseIndexer.search taken step by step, in any order.

\* The words an embedded text consists of.
TextWords(text) == IF text # <<>> /\ text[1] = "text" THEN WordsOf(text) ELSE text

\* The score the sparse store gives a record: the dimensions the query vector
\* shares with the record's vector, at most MaxScore.
SparseScore(vector, record) ==
    Min2(MaxScore,
         Cardinality({n \in 1..Len(vector.indices) :
             \E m \in 1..Len(record.sparse_values.indices) :
                 record.sparse_values.indices[m] = vector.indices[n]}))

\* The score the dense store gives a record: the closeness of the two embedded
\* texts, here the words of the query that the record's text has, at most MaxScore.
DenseScore(embedding, record) ==
    LET words == _tokenize(TextWords(embedding[2]))
        doc_words == TextWords(record.values[2])
    IN Min2(MaxScore,
            Cardinality({words[n] : n \in 1..Len(words)}
                            \cap {doc_words[n] : n \in 1..Len(doc_words)}))

\* The sparse store matches the records that share a dimension with the query.
SparseScored(store, vector) ==
    {[chunk_id |-> r.id, score |-> SparseScore(vector, r)] :
        r \in {x \in store : SparseScore(vector, x) > 0}}

\* The dense store scores every record.
DenseScored(store, embedding) ==
    {[chunk_id |-> r.id, score |-> DenseScore(embedding, r)] : r \in store}

\* The matches best score first, matches of equal score by chunk number.
RECURSIVE BestFirst(_)
BestFirst(scored) ==
    IF scored = {} THEN <<>>
    ELSE LET best == CHOOSE x \in scored :
                         \A y \in scored :
                             \/ x.score > y.score
                             \/ x.score = y.score /\ x.chunk_id[2] <= y.chunk_id[2]
         IN <<best>> \o BestFirst(scored \ {best})

\* An index.query that removes the records it has matched from the store.
IndexQueryConsumes(store, scored, k) ==
    LET matches == Truncate(BestFirst(scored), k)
    IN [matches |-> matches,
        store |-> {r \in store : \A n \in 1..Len(matches) : matches[n].chunk_id # r.id}]

\* index.query(top_k=k), index_sparse.py:177-182 and index_dense.py:181-185: the
\* k best matches; the store is read and left as it is.
IndexQuery(store, scored, k) ==
    [matches |-> Truncate(BestFirst(scored), k), store |-> store]

SearchEnvs == [sparse_ok : BOOLEAN, embedded : BOOLEAN, dense_ok : BOOLEAN]

StoreOf(vectors) == {vectors[n] : n \in 1..Len(vectors)}

InitSearch ==
    /\ pc = "searching"
    /\ sparse_pc = "vector"
    /\ dense_pc = "embed"
    /\ chunks \in ChunkLists
    /\ hash_seed \in HashSeeds
    /\ \E build_seed \in HashSeeds : sparse_store = StoreOf(SparseVectors(chunks, build_seed))
    /\ dense_store =
           StoreOf(DenseVectors(chunks, [n \in 1..Len(chunks) |-> Embedding(chunks[n].text)]))
    /\ state_at_start = [sparse_store |-> sparse_store, dense_store |-> dense_store,
                         hash_seed |-> hash_seed]
    /\ search_query \in SearchQueries
    /\ search_env \in SearchEnvs
    /\ search_trace = <<>>
    /\ query_sparse = <<>>
    /\ query_embedding = <<>>
    /\ vectors_to_upsert = <<>>
    /\ top_k \in TopKs
    /\ sparse_weight \in Weights
    /\ dense_weight \in Weights
    /\ sparse_results = <<>>
    /\ dense_results = <<>>
    /\ sparse_failed = FALSE
    /\ dense_failed = FALSE
    /\ fused_results = <<>>
    /\ returned = <<>>
    /\ ix_pos = 0
    /\ indexed_count = 0
    /\ ix_return = <<>>
    /\ ix_embedded = {}
    /\ ix_persisted = {}
    /\ batch_size = 1
    /\ ix_run = 1
    /\ upsert_failed = FALSE
    /\ first_store = {}
    /\ first_clean = FALSE
    /\ IdleNorm
    /\ IdleRerank
    /\ IdlePreprocess
    /\ IdleApp

\* SparseIndexer.search, line 174
SearchSparseVector ==
    /\ pc = "searching"
    /\ sparse_pc = "vector"
    /\ query_sparse' = <<_compute_bm25_sparse_vector(search_query, Absent, hash_seed)>>
    /\ sparse_pc' = "query"
    /\ search_trace' = Append(search_trace, "sparse_vector")
    /\ UNCHANGED <<pc, retrVars, normVars, rerankVars, ixVars, ppVars, appVars, hash_seed,
                   sparse_store, vectors_to_upsert, search_query, dense_pc,
                   query_embedding, search_env, state_at_start>>

\* SparseIndexer.search, lines 176-201
SearchSparseQuery ==
    /\ pc = "searching"
    /\ sparse_pc = "query"
    /\ LET answer == IndexQuery(sparse_store,
                                SparseScored(sparse_store, Get(query_sparse)), top_k * 2)
           out == SparseIndexerSearch([ok |-> search_env.sparse_ok,
                                       matches |-> answer.matches])
       IN /\ sparse_results' = out.results
          /\ sparse_failed' = ~search_env.sparse_ok
          /\ sparse_store' = IF search_env.sparse_ok THEN answer.store ELSE sparse_store
    /\ sparse_pc' = "done"
    /\ search_trace' = Append(search_trace, "sparse_query")
    /\ UNCHANGED <<pc, sparse_weight, dense_weight, top_k, dense_results, dense_failed,
                   fused_results, returned, normVars, rerankVars, ixVars, ppVars, appVars,
                   hash_seed, vectors_to_upsert, search_query, query_sparse, dense_pc,
                   query_embedding, search_env, state_at_start>>

\* DenseIndexer.search, lines 173-178: an empty embedding returns [] at once.
\* dense_store is an element of ixVars, so the other elements are listed.
SearchDenseEmbed ==
    /\ pc = "searching"
    /\ dense_pc = "embed"
    /\ query_embedding' = GetEmbedding(search_query, search_env.embedded)
    /\ dense_pc' = IF search_env.embedded THEN "query" ELSE "done"
    /\ dense_failed' = ~search_env.embedded
    /\ search_trace' = Append(search_trace, "dense_embed")
    /\ UNCHANGED <<pc, sparse_weight, dense_weight, top_k, sparse_results, dense_results,
                   sparse_failed, fused_results, returned, normVars, rerankVars, ixVars,
                   ppVars, appVars, sparseIxVars, sparse_pc, search_env, state_at_start>>

\* DenseIndexer.search, lines 180-204
SearchDenseQuery ==
    /\ pc = "searching"
    /\ dense_pc = "query"
    /\ LET answer == IndexQuery(dense_store,
                                DenseScored(dense_store, Get(query_embedding)), top_k * 2)
           out == DenseIndexerSearch([embedded |-> TRUE, ok |-> search_env.dense_ok,
                                      matches |-> answer.matches])
       IN /\ dense_results' = out.results
          /\ dense_failed' = ~search_env.dense_ok
          /\ dense_store' = IF search_env.dense_ok THEN answer.store ELSE dense_store
    /\ dense_pc' = "done"
    /\ search_trace' = Append(search_trace, "dense_query")
    /\ UNCHANGED <<pc, sparse_weight, dense_weight, top_k, sparse_results, sparse_failed,
                   fused_results, returned, normVars, rerankVars, ppVars, appVars, sparseIxVars,
                   chunks, ix_pos, indexed_count, ix_return, ix_embedded, ix_persisted,
                   batch_size, ix_run, upsert_failed, first_store, first_clean,
                   sparse_pc, query_embedding, search_env, state_at_start>>

\* retrieve, line 60, once both searches have returned.
FuseAfterSearches ==
    /\ pc = "searching"
    /\ sparse_pc = "done"
    /\ dense_pc = "done"
    /\ fused_results' =
          _fuse_results(sparse_results, dense_results, sparse_weight, dense_weight)
    /\ pc' = "truncate"
    /\ UNCHANGED <<sparse_weight, dense_weight, top_k, sparse_results, dense_results,
                   sparse_failed, dense_failed, returned, normVars, rerankVars, buildVars>>

NextSearch ==
    \/ SearchSparseVector
    \/ SearchSparseQuery
    \/ SearchDenseEmbed
    \/ SearchDenseQuery
    \/ FuseAfterSearches
    \/ ReturnTopK

SpecSearch == InitSearch /\ [][NextSearch]_vars

\* ------------------------------------------------------- index build properties

IndexDone == pc = "index_done"

ChunkIdsOf(list) == {list[n].id : n \in 1..Len(list)}

\* The record holds the vector computed from the text of the chunk of its own id.
HoldsOwnVector(r) ==
    \E n \in 1..Len(chunks) : chunks[n].id = r.id /\ r.values = Embedding(chunks[n].text)

\* C11: when the first dense indexing has ended without a store failure, whatever
\* embedding calls failed, a chunk was persisted iff its own embedding call
\* succeeded, every stored record holds the vector of its own chunk's text, and the
\* returned count is non-zero when at least one embedding succeeded.
C11_EmbeddingFailureSkipsOnlyFailedChunks ==
    (IndexDone /\ ix_run = 1 /\ ~upsert_failed) =>
        /\ ix_persisted = ix_embedded
        /\ \A r \in dense_store : HoldsOwnVector(r)
        /\ (ix_embedded # {} => Get(ix_return) > 0)

\* C12: the value index_documents returns is the number of chunk records the
\* invocation persisted in the store, whatever embedding or upsert calls failed.
C12_ReturnsPersistedCount ==
    IndexDone => Get(ix_return) = Cardinality(ix_persisted)

\* The position of the term in the vector's terms, 0 when it has none.
PositionOf(term, vector) ==
    IF \E n \in 1..Len(vector.terms) : vector.terms[n] = term
    THEN CHOOSE n \in 1..Len(vector.terms) : vector.terms[n] = term
    ELSE 0

\* C19: when the query server has computed the sparse vector of a query, a term of
\* the query that is a term of a stored chunk has in the query vector the dimension
\* it has in the chunk's stored vector.
C19_TermDimensionSharedByIndexAndQuery ==
    pc = "query_vector_done" =>
        \A r \in sparse_store : \A term \in {"annual", "leave", "staff", "sick", "salary"} :
            LET doc_pos == PositionOf(term, r.sparse_values)
                query_pos == PositionOf(term, Get(query_sparse))
            IN (doc_pos > 0 /\ query_pos > 0) =>
                   r.sparse_values.indices[doc_pos] = Get(query_sparse).indices[query_pos]

OneRecordPerChunk(store) ==
    \A id \in ChunkIdsOf(chunks) : Cardinality({r \in store : r.id = id}) = 1

\* C13: when the chunk list has been indexed into the sparse store without a
\* failure and is indexed a second time without a failure, the store holds exactly
\* one record per chunk id and is the store the first indexing left.
C13_ReindexingIsIdempotent ==
    (IndexDone /\ ix_run = 2 /\ first_clean /\ ~upsert_failed) =>
        /\ OneRecordPerChunk(sparse_store)
        /\ sparse_store = first_store

\* -------------------------------------------------------- preprocess properties

PreprocessDone == pc = "preprocess_done"

\* The positions in all_chunks of the chunks of document number doc.
ChunksOfDocument(doc) == {n \in 1..Len(all_chunks) : chunk_owner[n][1] = doc}

\* C14: the chunks preprocess has collected, and so the chunks it returns, have
\* pairwise distinct ids.
C14_ChunkIdsDistinct ==
    /\ \A m, n \in 1..Len(all_chunks) : m # n => all_chunks[m].id # all_chunks[n].id
    /\ PreprocessDone => Get(pp_return) = all_chunks

\* Two documents of the same file name, the first with several chunks, were
\* preprocessed.
C14_Witness ==
    /\ PreprocessDone
    /\ Len(pp_documents) = 2
    /\ pp_documents[1].source = pp_documents[2].source
    /\ Cardinality(ChunksOfDocument(1)) >= 2
    /\ Cardinality(ChunksOfDocument(2)) >= 2

\* The ids of the chunks of document number doc, in the order of all_chunks.
RECURSIVE IdsOfDocumentFrom(_, _)
IdsOfDocumentFrom(doc, n) ==
    IF n > Len(all_chunks) THEN <<>>
    ELSE (IF chunk_owner[n][1] = doc THEN <<all_chunks[n].id>> ELSE <<>>)
             \o IdsOfDocumentFrom(doc, n + 1)

\* The ids preprocess gives the chunks of the document when it is the only
\* document of the corpus.
IdsWhenAlone(doc) ==
    LET chunks_alone ==
            ChunkSections(_parse_sections(doc.content), 1, doc.source,
                          _extract_policy_type(doc.source), 0, pp_config).chunks
    IN [n \in 1..Len(chunks_alone) |-> chunks_alone[n].id]

\* C15: the ids of a document's chunks depend on the document alone: in every
\* corpus they are the ids the document's chunks get in the corpus of that one
\* document.
C15_ChunkIdsStableAcrossCorpora ==
    PreprocessDone =>
        \A doc \in 1..Len(pp_documents) :
            IdsOfDocumentFrom(doc, 1) = IdsWhenAlone(pp_documents[doc])

C17_NoChunkBelowMinTokens ==
    \A n \in 1..Len(all_chunks) :
        _estimate_tokens(all_chunks[n].text) >= pp_config.min_tokens

\* The document has no character.
EmptyDocument(doc) == Join("\n", doc.content) = <<>>

\* The positions in all_chunks of the chunks of section number sec of document doc.
ChunksOfSection(doc, sec) == {n \in 1..Len(all_chunks) : chunk_owner[n] = <<doc, sec>>}

SmallSection(section) == _estimate_tokens(section.text) <= pp_config.max_tokens

\* C18: a section of estimated size at most max_tokens has given exactly one chunk,
\* with the section's text and the section's heading as metadata.section; an empty
\* document has given no chunk.
C18_SmallSectionIsOneChunk ==
    PreprocessDone =>
        \A doc \in 1..Len(pp_documents) :
            LET sections == _parse_sections(pp_documents[doc].content)
            IN /\ \A sec \in 1..Len(sections) :
                      SmallSection(sections[sec]) =>
                          /\ Cardinality(ChunksOfSection(doc, sec)) = 1
                          /\ \A n \in ChunksOfSection(doc, sec) :
                                 /\ all_chunks[n].text = sections[sec].text
                                 /\ all_chunks[n].metadata.section = sections[sec].heading
               /\ EmptyDocument(pp_documents[doc]) => ChunksOfDocument(doc) = {}

\* An empty document and a document with a small section of two sentences, the
\* first longer than the target, were preprocessed.
C18_Witness ==
    /\ PreprocessDone
    /\ \E doc \in 1..Len(pp_documents) : EmptyDocument(pp_documents[doc])
    /\ \E doc \in 1..Len(pp_documents) :
           LET sections == _parse_sections(pp_documents[doc].content)
           IN \E sec \in 1..Len(sections) :
                  /\ SmallSection(sections[sec])
                  /\ Len(_split_by_tokens(sections[sec].text, pp_config)) > 1
                  /\ Cardinality(ChunksOfSection(doc, sec)) = 1

\* ------------------------------------------------------------ search properties

\* What the sparse search returns when it runs alone on the state retrieve started in.
SequentialSparse ==
    LET vector == _compute_bm25_sparse_vector(search_query, Absent, state_at_start.hash_seed)
        store == state_at_start.sparse_store
    IN SparseIndexerSearch(
           [ok |-> search_env.sparse_ok,
            matches |-> IndexQuery(store, SparseScored(store, vector), top_k * 2).matches]
       ).results

\* What the dense search returns when it runs alone on the state retrieve started in.
SequentialDense ==
    LET embedding == GetEmbedding(search_query, search_env.embedded)
        store == state_at_start.dense_store
    IN DenseIndexerSearch(
           [embedded |-> search_env.embedded,
            ok |-> search_env.dense_ok,
            matches |-> IF search_env.embedded
                        THEN IndexQuery(store, DenseScored(store, Get(embedding)),
                                        top_k * 2).matches
                        ELSE <<>>]
       ).results

\* C20: in whatever order the steps of the two searches are taken, the stores and
\* the hash seed stay as they were when retrieve was called, and retrieve ends
\* with the two result lists and the output of the searches run one after the other.
C20_SearchesIndependent ==
    pc \in {"searching", "truncate", "retrieve_done"} =>
        /\ sparse_store = state_at_start.sparse_store
        /\ dense_store = state_at_start.dense_store
        /\ hash_seed = state_at_start.hash_seed
        /\ pc = "retrieve_done" =>
               /\ sparse_results = SequentialSparse
               /\ dense_results = SequentialDense
               /\ returned = Truncate(_fuse_results(SequentialSparse, SequentialDense,
                                                    sparse_weight, dense_weight), top_k)

\* retrieve has returned results of both searches after the dense search embedded
\* the query between the two steps of the sparse search.
C20_Witness ==
    /\ pc = "retrieve_done"
    /\ search_trace = <<"sparse_vector", "dense_embed", "dense_query", "sparse_query">>
    /\ sparse_results # <<>>
    /\ dense_results # <<>>
    /\ Len(returned) > 1

\* ================================================= DocumentIngester and build_index
MaxFiles == 2
ChunkSize == 512
ChunkOverlap == 128
MinChunkSize == 100

\* A text is modelled by its shape: `spaces` whitespace characters followed by
\* `letters` word characters, without punctuation.
Text(spaces, letters) == [spaces |-> spaces, letters |-> letters]

EmptyText == Text(0, 0)

TextLen(text) == text.spaces + text.letters

\* str.strip()
StripText(text) == Text(0, text.letters)

Texts == {EmptyText, Text(1, 0), Text(0, 50), Text(0, 600), Text(1, 600)}

Suffixes == {".md", ".txt", ".exe"}

FileNames == <<"a", "b", "c">>

\* A path of data_dir: its stem and suffix, whether open() succeeds on it, and
\* what read() returns when it does.
FileAt(n) == [stem : {FileNames[n]}, suffix : Suffixes, readable : BOOLEAN, content : Texts]

FileListsOfLen(len) ==
    {list \in [1..len -> UNION {FileAt(n) : n \in 1..len}] :
        \A n \in 1..len : list[n] \in FileAt(n)}

FileLists == UNION {FileListsOfLen(len) : len \in 0..MaxFiles}

None == <<>>

\* data/ingest.py
ingest_markdown(file_path) ==
    IF file_path.readable
    THEN [id |-> file_path.stem,
          content |-> file_path.content,
          source_file |-> <<file_path.stem, file_path.suffix>>,
          file_type |-> "markdown"]
    ELSE None

\* preprocessor/ingest.py
supported_formats == {".pdf", ".docx", ".txt", ".md"}

_read_text(file_path) ==
    IF file_path.readable THEN StripText(file_path.content) ELSE EmptyText

ingest_file(file_path) ==
    LET content == _read_text(file_path)
    IN  IF TextLen(content) = 0 \/ TextLen(StripText(content)) = 0
        THEN None
        ELSE [content |-> content,
              source |-> <<file_path.stem, file_path.suffix>>,
              file_path |-> <<"data_dir", file_path.stem, file_path.suffix>>,
              file_type |-> file_path.suffix,
              file_size |-> TextLen(file_path.content)]

\* Whether the loop of ingest_all reaches the path at all.
Scanned(which, file_path) ==
    IF which = "data"
    THEN file_path.suffix = ".md"
    ELSE file_path.suffix \in supported_formats

\* What one pass of the loop of ingest_all appends to documents.
IngestedFrom(which, file_path) ==
    LET doc == IF which = "data" THEN ingest_markdown(file_path)
               ELSE ingest_file(file_path)
    IN  IF Scanned(which, file_path) /\ doc # None THEN <<doc>> ELSE <<>>

\* ------------------------------- data/preprocess.py: DocumentPreprocessor
\* _clean_text on a text of the modelled shape: the run of whitespace becomes one
\* space, which strip() then removes.
CleanText(text) == Text(0, text.letters)

\* _chunk_text on a cleaned text, by the lengths of the chunks: without a sentence
\* ending _find_sentence_boundary returns the position it was given.
RECURSIVE ChunkTextLoop(_, _, _)
ChunkTextLoop(len, start, out) ==
    IF start < len
    THEN LET end == start + ChunkSize
             chunk == Min2(end, len) - start
             appended == IF chunk > 0 THEN Append(out, chunk) ELSE out
         IN  IF end - ChunkOverlap <= 0 \/ end >= len
             THEN appended
             ELSE ChunkTextLoop(len, end - ChunkOverlap, appended)
    ELSE out

_chunk_text(text) == ChunkTextLoop(TextLen(text), 0, <<>>)

HasKey(dict, key) == key \in DOMAIN dict

\* The chunks preprocess makes of one document; reading doc['source'] raises a
\* KeyError for a document without that key.
RECURSIVE DocChunks(_, _, _, _)
DocChunks(doc, lens, i, out) ==
    IF i > Len(lens) THEN [raised |-> FALSE, chunks |-> out]
    ELSE IF lens[i] >= MinChunkSize
    THEN IF HasKey(doc, "source")
         THEN DocChunks(doc, lens, i + 1,
                  Append(out, [content |-> lens[i], source |-> doc.source,
                               chunk_index |-> i - 1, total_chunks |-> Len(lens),
                               file_type |-> doc.file_type,
                               chunk_id |-> <<doc.source, i - 1>>]))
         ELSE [raised |-> TRUE, chunks |-> out]
    ELSE DocChunks(doc, lens, i + 1, out)

RECURSIVE DataPreprocess(_, _, _)
DataPreprocess(docs, n, all) ==
    IF n > Len(docs) THEN [raised |-> FALSE, chunks |-> all]
    ELSE LET made == DocChunks(docs[n], _chunk_text(CleanText(docs[n].content)), 1, all)
         IN  IF made.raised THEN made ELSE DataPreprocess(docs, n + 1, made.chunks)

\* index_documents of either indexer, given working stores and embeddings: the
\* loop reads chunk["id"], chunk["text"] and chunk["metadata"] inside a try block
\* whose handler returns 0.
IndexerKeys == {"id", "text", "metadata"}

IndexDocuments(list) ==
    IF \A n \in 1..Len(list) : IndexerKeys \subseteq DOMAIN list[n] THEN Len(list) ELSE 0

Returned(value) == [raised |-> FALSE, value |-> value]

\* build_index from the return of ingest_all on.
BuildIndexFrom(docs) ==
    IF docs = <<>> THEN Returned(0)
    ELSE LET pre == DataPreprocess(docs, 1, <<>>)
         IN  IF pre.raised THEN [raised |-> TRUE, value |-> 0]
             ELSE IF pre.chunks = <<>> THEN Returned(0)
             ELSE Returned(Min2(IndexDocuments(pre.chunks), IndexDocuments(pre.chunks)))

notApp == <<retrVars, normVars, rerankVars, ixVars, sparseIxVars, ppVars, searchVars>>
notIngest == <<notApp, pipeVars, orchVars, stmVars>>

InitIngest ==
    /\ pc = "ingest"
    /\ ingester \in {"data", "preprocessor"}
    /\ files \in FileLists
    /\ file_idx = 0
    /\ ing_documents = <<>>
    /\ ing_return = <<>>
    /\ build_outcome = <<>>
    /\ IdleRetrieve /\ IdleNorm /\ IdleRerank
    /\ IdleIndex /\ IdleSparseIndex /\ IdlePreprocess /\ IdleSearch
    /\ IdlePipelineSearch /\ IdleOrchestrator /\ IdleMemory

\* One pass of the loop of ingest_all.
IngestFile ==
    /\ pc = "ingest"
    /\ file_idx < Len(files)
    /\ file_idx' = file_idx + 1
    /\ ing_documents' = ing_documents \o IngestedFrom(ingester, files[file_idx + 1])
    /\ UNCHANGED <<pc, ingester, files, ing_return, build_outcome, notIngest>>

IngestReturn ==
    /\ pc = "ingest"
    /\ file_idx = Len(files)
    /\ ing_return' = <<ing_documents>>
    /\ pc' = "ingested"
    /\ UNCHANGED <<ingester, files, file_idx, ing_documents, build_outcome, notIngest>>

\* KnowledgeBasePipeline.build_index, whose ingester is that of data/, after
\* ingest_all has returned.
BuildIndex ==
    /\ pc = "ingested"
    /\ ingester = "data"
    /\ build_outcome' = <<BuildIndexFrom(Get(ing_return))>>
    /\ pc' = "build_done"
    /\ UNCHANGED <<ingester, files, file_idx, ing_documents, ing_return, notIngest>>

NextIngest == IngestFile \/ IngestReturn \/ BuildIndex

SpecIngest == InitIngest /\ [][NextIngest]_vars

\* ------------------------------------------------------ ingestion properties
IngestDone == ing_return # <<>>

\* The stem of the file a document was made from.
DocStem(doc) == IF HasKey(doc, "id") THEN doc.id ELSE doc.source[1]

DocsOfStem(docs, stem) == {d \in 1..Len(docs) : DocStem(docs[d]) = stem}

Unreadable(file_path) == ~file_path.readable

EmptyFile(file_path) == TextLen(file_path.content) = 0

HasContent(file_path) == file_path.readable /\ file_path.content.letters > 0

\* C21: when ingest_all has returned, it has returned no document for a file that
\* cannot be read or whose content is empty, exactly one document for every
\* scanned file that can be read and has content, whatever the other files of the
\* directory are, and no returned document has empty content.
C21_IngestSkipsUnreadableAndEmpty ==
    IngestDone =>
        LET docs == Get(ing_return)
        IN  /\ \A n \in 1..Len(files) :
                LET mine == DocsOfStem(docs, files[n].stem)
                IN  /\ Cardinality(mine) <= 1
                    /\ (Unreadable(files[n]) \/ EmptyFile(files[n])) => mine = {}
                    /\ ~Scanned(ingester, files[n]) => mine = {}
                    /\ (Scanned(ingester, files[n]) /\ HasContent(files[n])) => mine # {}
            /\ \A d \in 1..Len(docs) : TextLen(docs[d].content) > 0

\* The same statement for the ingester of preprocessor/ alone.
C21_HoldsForPreprocessorIngester ==
    ingester = "preprocessor" => C21_IngestSkipsUnreadableAndEmpty

BuildDone == pc = "build_done"

\* The chunks the pipeline's preprocessor makes of the ingested documents.
ProducedChunks == DataPreprocess(Get(ing_return), 1, <<>>).chunks

\* A markdown file that can be read and whose text is long enough for one chunk.
Indexable(file_path) ==
    /\ file_path.suffix = ".md"
    /\ file_path.readable
    /\ file_path.content.letters >= MinChunkSize

\* C23: when build_index has ended on a directory holding at least one readable
\* markdown file with enough text for a chunk, it has not raised, and the count it
\* returned is positive and is the number of chunks its preprocessor produced.
C23_BuildIndexReturnsChunkCount ==
    (BuildDone /\ \E n \in 1..Len(files) : Indexable(files[n])) =>
        /\ ~Get(build_outcome).raised
        /\ Get(build_outcome).value > 0
        /\ Get(build_outcome).value = Len(ProducedChunks)

\* On such a directory build_index always ends in the KeyError of preprocess.
C23_AlwaysRaises ==
    (BuildDone /\ \E n \in 1..Len(files) : Indexable(files[n])) =>
        Get(build_outcome).raised

\* ------------------------------------------------ heuristic score properties
\* The candidate has been scored by the heuristic strategy.
HeuristicallyScored(doc) == doc.heuristic_score # Absent

\* The query terms that occur in the content of the candidate.
TermsPresent(doc) == {t \in query : t \in doc.content.terms}

\* C22: every candidate the heuristic strategy has scored carries
\* heuristic_score = 0.7 x term_coverage + 0.3 x length_score, a value of [0, 1],
\* and rerank_score = (original_score + heuristic_score) / 2, where term_coverage
\* is the share of the distinct query terms present in the content (1 when all
\* are, 0 for a query without terms) and length_score is
\* 1 - |len(content) - 500| / 500 clamped to [0, 1].
C22_HeuristicScoreFormula ==
    \A i \in 1..Len(documents) :
        HeuristicallyScored(documents[i]) =>
            LET doc == documents[i]
                distance == Abs(doc.content.length - OptimalLength)
                length_score == IF distance >= OptimalLength THEN 0
                                ELSE One - (distance * One) \div OptimalLength
                term_coverage ==
                    IF query = {} THEN 0
                    ELSE IF TermsPresent(doc) = query THEN One
                    ELSE (Cardinality(TermsPresent(doc)) * One) \div Cardinality(query)
                heuristic_score == Get(doc.heuristic_score)
            IN  /\ 10 * heuristic_score = 7 * term_coverage + 3 * length_score
                /\ heuristic_score \in 0..One
                /\ 2 * Get(doc.rerank_score) = Get(doc.original_score) + heuristic_score

\* A candidate holding every query term, of the optimal length, has been scored 1
\* by the heuristic strategy, and another candidate has been scored less.
C22_Witness ==
    /\ pc = "rerank_done"
    /\ ~use_llm
    /\ \E i, j \in 1..Len(documents) :
        /\ query # {}
        /\ TermsPresent(documents[i]) = query
        /\ documents[i].heuristic_score = Set(One)
        /\ HeuristicallyScored(documents[j])
        /\ Get(documents[j].heuristic_score) \in 1..(One - 1)

\* C27: when rerank has returned, under either strategy, the caller's list of
\* candidates is what it was when rerank was called: the same records in the same
\* order, none with a field gained or changed.
C27_RerankLeavesArgumentAlone ==
    pc = "rerank_done" => documents = input_documents

\* The same statement for the LLM strategy alone.
C27_HoldsForLlmStrategy ==
    use_llm => C27_RerankLeavesArgumentAlone

\* ------------------------------------------------------------ split properties
IsSuffix(part, text) ==
    /\ Len(part) <= Len(text)
    /\ SubSeq(text, Len(text) - Len(part) + 1, Len(text)) = part

\* The sections of the documents preprocess has processed that _chunk_section
\* hands to _split_by_tokens.
SplitSections ==
    UNION {{sec \in {sections[k] : k \in 1..Len(sections)} : ~SmallSection(sec)} :
              sections \in {_parse_sections(pp_documents[d].content) : d \in 1..doc_idx}}

CarriesOf(section) == SplitCarries(_split_sentences(section.text), 1, <<>>, 0, pp_config)


\* C25: each time _split_by_tokens emits a chunk and seeds the next buffer, the
\* overlap it carries over is a suffix of the chunk just emitted of at most
\* overlap_tokens * 4 characters; with overlap_tokens = 0 it carries nothing over.
C25_OverlapIsBoundedSuffix ==
    \A section \in SplitSections :
        \A k \in 1..Len(CarriesOf(section)) :
            LET carry == CarriesOf(section)[k]
            IN  /\ IsSuffix(carry.overlap_text, carry.emitted)
                /\ Len(carry.overlap_text) <= pp_config.overlap_tokens * 4
                /\ pp_config.overlap_tokens = 0 => carry.overlap_text = <<>>

\* The same statement for a positive overlap_tokens.
C25_HoldsForPositiveOverlap ==
    pp_config.overlap_tokens > 0 => C25_OverlapIsBoundedSuffix

\* The number of the first chunk of the list that holds the sentence whole, 0 if none.
RECURSIVE FirstChunkWith(_, _, _)
FirstChunkWith(texts, sentence, n) ==
    IF n > Len(texts) THEN 0
    ELSE IF Contains(texts[n], sentence) THEN n
    ELSE FirstChunkWith(texts, sentence, n + 1)

\* C26: when preprocess has split a section, every sentence of the section is whole
\* in at least one of the chunks made of it, the first chunks that hold the
\* sentences follow the order of the sentences, and a sentence longer than
\* max_tokens is whole at the end of a chunk, which is therefore oversized.
C26_NoSentenceIsSplit ==
    PreprocessDone =>
        \A doc \in 1..Len(pp_documents) :
            LET sections == _parse_sections(pp_documents[doc].content)
            IN  \A sec \in 1..Len(sections) :
                    ~SmallSection(sections[sec]) =>
                        LET sentences == _split_sentences(sections[sec].text)
                            mine == SelectSeq([n \in 1..Len(all_chunks) |-> n],
                                              LAMBDA n : chunk_owner[n] = <<doc, sec>>)
                            texts == [n \in 1..Len(mine) |-> all_chunks[mine[n]].text]
                        IN  /\ \A k \in 1..Len(sentences) :
                                   FirstChunkWith(texts, sentences[k], 1) > 0
                            /\ \A k \in 1..(Len(sentences) - 1) :
                                   FirstChunkWith(texts, sentences[k], 1)
                                       <= FirstChunkWith(texts, sentences[k + 1], 1)
                            /\ \A k \in 1..Len(sentences) :
                                   _estimate_tokens(sentences[k]) > pp_config.max_tokens =>
                                       \E n \in 1..Len(texts) : IsSuffix(sentences[k], texts[n])

\* A section of three sentences was split into more than one chunk, and a section
\* with a sentence longer than max_tokens was split.
C26_Witness ==
    /\ PreprocessDone
    /\ \E doc \in 1..Len(pp_documents) :
           LET sections == _parse_sections(pp_documents[doc].content)
           IN  \E sec \in 1..Len(sections) :
                   /\ ~SmallSection(sections[sec])
                   /\ Len(_split_sentences(sections[sec].text)) = 3
                   /\ Cardinality(ChunksOfSection(doc, sec)) > 1
    /\ \E doc \in 1..Len(pp_documents) :
           LET sections == _parse_sections(pp_documents[doc].content)
           IN  \E sec \in 1..Len(sections) :
                   /\ ~SmallSection(sections[sec])
                   /\ Cardinality(ChunksOfSection(doc, sec)) > 1
                   /\ \E k \in 1..Len(_split_sentences(sections[sec].text)) :
                          _estimate_tokens(_split_sentences(sections[sec].text)[k])
                              > pp_config.max_tokens

\* ================================================ KnowledgeBasePipeline.search
\* The pipeline's retriever has sparse_weight = dense_weight = 0.5.
PipelineWeight == 1

\* HybridRetriever.retrieve(query, top_k=k), the answers of the two stores given.
Retrieve(k, sparse_resp, dense_resp) ==
    Truncate(_fuse_results(SparseIndexerSearch(sparse_resp).results,
                           DenseIndexerSearch(dense_resp).results,
                           PipelineWeight, PipelineWeight), k)

\* A result of retrieve as the reranker reads it: final_score, here in units of
\* 1/One, and the fields the reranker adds, not set yet.  The content is read by
\* the judge alone and left out.
AsCandidate(entry) ==
    Candidate(entry.chunk_id, Absent,
              [final_score |-> Set((entry.final_score * One) \div (2 * PipelineWeight * Scale)),
               score |-> Set(entry.score)])

\* The loop of _llm_rerank from candidate i on, then the sort, the answers of the
\* provider given.
RECURSIVE LlmRerankFrom(_, _, _, _)
LlmRerankFrom(docs, outcomes, i, scored) ==
    IF LlmLoopDone(i, docs) THEN SortDesc(scored, RerankScores(scored))
    ELSE LET gen == GeminiClientGenerate(outcomes[i])
         IN  IF gen.raised THEN docs
             ELSE LlmRerankFrom(docs, outcomes, i + 1, AppendScored(scored, docs[i], gen.text))

\* Reranker(use_llm=True).rerank(query, docs, top_k=k)
Rerank(docs, k, outcomes) ==
    IF docs = <<>> THEN <<>> ELSE Truncate(LlmRerankFrom(docs, outcomes, 1, <<>>), k)

notPipelineSearch == <<notApp, ingestVars, orchVars, stmVars>>

InitPipelineSearch ==
    /\ pc = "search"
    /\ search_top_k \in 0..MaxTopK
    /\ use_reranking \in BOOLEAN
    /\ search_results = <<>>
    /\ search_return = <<>>
    /\ IdleRetrieve /\ IdleNorm /\ IdleRerank
    /\ IdleIndex /\ IdleSparseIndex /\ IdlePreprocess /\ IdleSearch
    /\ IdleIngest /\ IdleOrchestrator /\ IdleMemory

\* results = self.retriever.retrieve(query, top_k=top_k * 2)
PipelineRetrieve ==
    /\ pc = "search"
    /\ \E sparse_resp \in SparseResponses(search_top_k * 2 * 2),
          dense_resp \in DenseResponses(search_top_k * 2 * 2) :
        LET found == Retrieve(search_top_k * 2, sparse_resp, dense_resp)
        IN  search_results' = [n \in 1..Len(found) |-> AsCandidate(found[n])]
    /\ pc' = "search_retrieved"
    /\ UNCHANGED <<search_top_k, use_reranking, search_return, notPipelineSearch>>

\* if not results: return []
PipelineNoResults ==
    /\ pc = "search_retrieved"
    /\ search_results = <<>>
    /\ search_return' = << <<>> >>
    /\ pc' = "search_done"
    /\ UNCHANGED <<search_top_k, use_reranking, search_results, notPipelineSearch>>

\* if use_reranking: results = self.reranker.rerank(query, results, top_k=top_k)
PipelineRerank ==
    /\ pc = "search_retrieved"
    /\ search_results # <<>>
    /\ use_reranking
    /\ \E outcomes \in [1..Len(search_results) -> ApiOutcomes] :
        search_results' = Rerank(search_results, search_top_k, outcomes)
    /\ pc' = "search_return"
    /\ UNCHANGED <<search_top_k, use_reranking, search_return, notPipelineSearch>>

PipelineSkipRerank ==
    /\ pc = "search_retrieved"
    /\ search_results # <<>>
    /\ ~use_reranking
    /\ pc' = "search_return"
    /\ UNCHANGED <<pipeVars, notPipelineSearch>>

\* return results
PipelineReturn ==
    /\ pc = "search_return"
    /\ search_return' = <<search_results>>
    /\ pc' = "search_done"
    /\ UNCHANGED <<search_top_k, use_reranking, search_results, notPipelineSearch>>

NextPipelineSearch ==
    \/ PipelineRetrieve
    \/ PipelineNoResults
    \/ PipelineRerank
    \/ PipelineSkipRerank
    \/ PipelineReturn

SpecPipelineSearch == InitPipelineSearch /\ [][NextPipelineSearch]_vars

\* C28: when search has returned, it has returned at most top_k results, with and
\* without reranking, for every top_k >= 0.
C28_SearchReturnsAtMostTopK ==
    pc = "search_done" => Len(Get(search_return)) <= search_top_k

\* The same statement for the calls with use_reranking = True.
C28_HoldsWithReranking ==
    use_reranking => C28_SearchReturnsAtMostTopK

\* ============================================================ RAGOrchestrator
Messages == {"Can I work from home?", "Tell me a joke"}

\* What the provider can answer to the classification prompt.
GuardTexts ==
    {"policy-related", " Policy-Related\n", "This is policy-related.", "off-topic",
     "I am not sure."}

GuardOutcomes ==
    {[ok |-> TRUE, text |-> t] : t \in GuardTexts} \cup {[ok |-> FALSE, text |-> ""]}

\* response.strip().lower()
StripLower(text) ==
    CASE text = " Policy-Related\n" -> "policy-related"
      [] text = "This is policy-related." -> "this is policy-related."
      [] text = "I am not sure." -> "i am not sure."
      [] text = Apology -> "sorry, i couldn't generate a response right now."
      [] OTHER -> text

\* "policy-related" in classification
MentionsPolicyRelated(classification) ==
    classification \in {"policy-related", "this is policy-related."}

\* DomainGuardAgent.__call__: the classification it writes into the state.
Classify(outcome) ==
    LET gen == GeminiClientGenerate(outcome)
    IN  IF gen.raised THEN "policy-related"
        ELSE IF MentionsPolicyRelated(StripLower(gen.text)) THEN "policy-related"
        ELSE "off-topic"

\* Variant: every query is routed to the retriever.
RouteAlwaysToRetriever(state) == "policy-related"

\* state.get("classification", "policy-related"): the key is in every state the
\* orchestrator builds, with the value None until the domain guard has run.
_route_based_on_classification(state) ==
    IF state.classification # Absent THEN Get(state.classification) ELSE "None"

\* The mapping given to add_conditional_edges.
ConditionalEdges(route) == IF route = "off-topic" THEN "summarizer" ELSE "retriever"

\* What RetrieverAgent._retrieve and _format_context can do: answer up to top_k = 3
\* documents, fall back to the three placeholder documents when the hybrid
\* retrieval raises, or raise while formatting.
RetrievalOutcomes ==
    {[raised |-> FALSE, docs |-> d] :
        d \in {<<>>, <<"A">>, <<"A", "B", "C">>, <<"P1", "P2", "P3">>}}
        \cup {[raised |-> TRUE, docs |-> <<>>]}

\* What the summarizer can reply: one of the four canned refusals, the provider's
\* answer, or an apology.
OffTopicReplies == {<<"refusal", n>> : n \in 1..4}

PolicyReplies == {<<"answer">>, <<"apology">>}

InitialState(message) ==
    [message |-> message, classification |-> Absent, retrieved_docs |-> Absent,
     context |-> Absent, reply |-> Absent]

notOrchestrator == <<notApp, ingestVars, pipeVars, stmVars>>

InitOrchestrator ==
    /\ pc = "orch_guard"
    /\ orch_mode \in {"process", "stream_process"}
    /\ orch_state \in {InitialState(m) : m \in Messages}
    /\ agent_trace = <<>>
    /\ guard_llm_failed = FALSE
    /\ IdleRetrieve /\ IdleNorm /\ IdleRerank
    /\ IdleIndex /\ IdleSparseIndex /\ IdlePreprocess /\ IdleSearch
    /\ IdleIngest /\ IdlePipelineSearch /\ IdleMemory

\* The entry point of the graph, and line 221 of stream_process.
DomainGuardAgent ==
    /\ pc = "orch_guard"
    /\ \E outcome \in GuardOutcomes :
        /\ orch_state' = [orch_state EXCEPT !.classification = Set(Classify(outcome))]
        /\ guard_llm_failed' = ~outcome.ok
    /\ agent_trace' = Append(agent_trace, "domain_guard")
    /\ pc' = "orch_route"
    /\ UNCHANGED <<orch_mode, notOrchestrator>>

\* The conditional edges of the graph, and line 224 of stream_process.
Route ==
    /\ pc = "orch_route"
    /\ LET next == IF orch_mode = "process"
                   THEN ConditionalEdges(_route_based_on_classification(orch_state))
                   ELSE IF orch_state.classification = Set("policy-related")
                        THEN "retriever"
                        ELSE "summarizer"
       IN  pc' = IF next = "retriever" THEN "orch_retriever" ELSE "orch_summarizer"
    /\ UNCHANGED <<orchVars, notOrchestrator>>

\* RetrieverAgent.__call__, then the edge to the summarizer.
RetrieverAgent ==
    /\ pc = "orch_retriever"
    /\ \E outcome \in RetrievalOutcomes :
        orch_state' =
            [orch_state EXCEPT
                !.retrieved_docs = Set(outcome.docs),
                !.context = Set(IF outcome.docs = <<>> THEN "No relevant policy documents found."
                                ELSE "formatted")]
    /\ agent_trace' = Append(agent_trace, "retriever")
    /\ pc' = "orch_summarizer"
    /\ UNCHANGED <<orch_mode, guard_llm_failed, notOrchestrator>>

\* SummarizerAgent.__call__, or stream_response consumed to its end.
SummarizerAgent ==
    /\ pc = "orch_summarizer"
    /\ \E reply \in IF orch_state.classification = Set("off-topic")
                    THEN OffTopicReplies ELSE PolicyReplies :
        orch_state' = [orch_state EXCEPT !.reply = Set(reply)]
    /\ agent_trace' = Append(agent_trace, "summarizer")
    /\ pc' = "orch_end"
    /\ UNCHANGED <<orch_mode, guard_llm_failed, notOrchestrator>>

\* The edge to END: the reply is saved and the run returns.
OrchestratorEnd ==
    /\ pc = "orch_end"
    /\ pc' = "orch_done"
    /\ UNCHANGED <<orchVars, notOrchestrator>>

NextOrchestrator ==
    \/ DomainGuardAgent
    \/ Route
    \/ RetrieverAgent
    \/ SummarizerAgent
    \/ OrchestratorEnd

SpecOrchestrator == InitOrchestrator /\ [][NextOrchestrator]_vars

\* Each step of a run is a call that returns: the run is not held up for ever
\* while one of its steps can be taken.
SpecOrchestratorLive == SpecOrchestrator /\ WF_vars(NextOrchestrator)

\* ------------------------------------------------------ orchestrator properties
GuardHasRun == orch_state.classification # Absent

\* C24: when the provider call of the domain guard has failed, the classification
\* the guard has set is 'policy-related'.
C24_GuardDefaultsToPolicyRelated ==
    (GuardHasRun /\ guard_llm_failed) => orch_state.classification = Set("policy-related")

\* The failure of the provider call always ends in 'off-topic'.
C24_FailureIsOffTopic ==
    (GuardHasRun /\ guard_llm_failed) => orch_state.classification = Set("off-topic")

IsPrefix(part, whole) ==
    /\ Len(part) <= Len(whole)
    /\ SubSeq(whole, 1, Len(part)) = part

\* The agents a run with this classification invokes, in order.
ExpectedAgents ==
    IF orch_state.classification = Set("policy-related")
    THEN <<"domain_guard", "retriever", "summarizer">>
    ELSE <<"domain_guard", "summarizer">>

RunOrder ==
    /\ IsPrefix(agent_trace, ExpectedAgents)
    /\ ~GuardHasRun => agent_trace = <<>>
    /\ pc = "orch_done" => agent_trace = ExpectedAgents
    /\ orch_state.classification = Set("off-topic") => orch_state.retrieved_docs = Absent
    /\ orch_state.reply # Absent => agent_trace = ExpectedAgents

\* C29: in every run of process and of stream_process the domain guard is invoked
\* first, the retriever next if and only if the classification is 'policy-related',
\* the summarizer once after them, and the run ends; in a run classified 'off-topic'
\* retrieved_docs stays unset.
C29_WorkflowOrder == [](RunOrder) /\ <>(pc = "orch_done")

\* A run classified 'off-topic' has ended without the retriever, and so has the
\* summarizer run once.
C29_Witness ==
    /\ pc = "orch_done"
    /\ orch_state.classification = Set("off-topic")
    /\ agent_trace = <<"domain_guard", "summarizer">>
    /\ orch_state.retrieved_docs = Absent

\* ========================================================== short-term memory
MAX_MESSAGES == 200
MaxAppends == 202

\* The limits get_recent_messages is called with; 20 is the default and the
\* orchestrator's.
Limits == {0, 1, 2, 20, 250}

\* The n-th message appended to the session: the orchestrator appends the user's
\* message, then the assistant's reply.
MessageAt(n) ==
    [role |-> IF n % 2 = 1 THEN "user" ELSE "assistant", text |-> <<"text", n>>, ts |-> n]

\* json.dumps of a message dict, and json.loads of the stored string.
JsonDumps(msg) == <<"json", msg.role, msg.text, msg.ts>>

JsonLoads(str) == [role |-> str[2], text |-> str[3], ts |-> str[4]]

\* reversed(data)
Reversed(seq) == [n \in 1..Len(seq) |-> seq[Len(seq) + 1 - n]]

\* An offset of a Redis list command: a negative offset counts from the tail.
RedisOffset(offset, len) == IF offset < 0 THEN len + offset ELSE offset

\* LRANGE key start stop: the elements from start to stop, both included, offsets
\* being 0-based and out-of-range offsets cut to the list.
LRange(list, start, stop) ==
    LET first == Max2(RedisOffset(start, Len(list)), 0)
        last == Min2(RedisOffset(stop, Len(list)), Len(list) - 1)
    IN  IF first > last THEN <<>> ELSE SubSeq(list, first + 1, last + 1)

\* LTRIM key start stop keeps what LRANGE key start stop answers.
LTrim(list, start, stop) == LRange(list, start, stop)

\* LPUSH key value
LPush(list, value) == <<value>> \o list

notMemory == <<notApp, ingestVars, pipeVars, orchVars>>

InitMemory ==
    /\ pc = "memory"
    /\ stm_messages = <<>>
    /\ stm_appended = <<>>
    /\ stm_return = <<>>
    /\ IdleRetrieve /\ IdleNorm /\ IdleRerank
    /\ IdleIndex /\ IdleSparseIndex /\ IdlePreprocess /\ IdleSearch
    /\ IdleIngest /\ IdlePipelineSearch /\ IdleOrchestrator

\* append_message: the commands of the pipeline run as one transaction.
AppendMessage ==
    /\ pc = "memory"
    /\ Len(stm_appended) < MaxAppends
    /\ LET msg == MessageAt(Len(stm_appended) + 1)
       IN  /\ stm_messages' = LTrim(LPush(stm_messages, JsonDumps(msg)), 0, MAX_MESSAGES - 1)
           /\ stm_appended' = Append(stm_appended, msg)
    /\ stm_return' = <<>>
    /\ UNCHANGED <<pc, notMemory>>

\* get_recent_messages(session_id, limit)
GetRecentMessages ==
    /\ pc = "memory"
    /\ \E limit \in Limits :
        LET data == LRange(stm_messages, 0, limit - 1)
            messages == [n \in 1..Len(data) |-> JsonLoads(Reversed(data)[n])]
        IN  stm_return' = <<[limit |-> limit, messages |-> messages]>>
    /\ UNCHANGED <<pc, stm_messages, stm_appended, notMemory>>

NextMemory == AppendMessage \/ GetRecentMessages

SpecMemory == InitMemory /\ [][NextMemory]_vars

\* ------------------------------------------------------------ memory properties
\* The last n elements of the sequence, in its order.
LastOf(seq, n) == SubSeq(seq, Len(seq) - n + 1, Len(seq))

\* The stored messages, oldest first.
StoredMessages == [n \in 1..Len(stm_messages) |-> JsonLoads(Reversed(stm_messages)[n])]

StoredAreMostRecent ==
    /\ Len(stm_messages) <= MAX_MESSAGES
    /\ StoredMessages = LastOf(stm_appended, Min2(MAX_MESSAGES, Len(stm_appended)))

ReturnedAreMostRecent ==
    stm_return # <<>> =>
        Get(stm_return).messages
            = LastOf(stm_appended, Min2(Get(stm_return).limit, Len(stm_messages)))

\* C30: after any sequence of append_message calls the stored list holds at most
\* MAX_MESSAGES messages, the most recently appended ones, and
\* get_recent_messages(session_id, limit) has returned the min(limit, number
\* stored) most recently appended messages, oldest first.
C30_MemoryKeepsMostRecent == StoredAreMostRecent /\ ReturnedAreMostRecent

\* The same statement for the calls with limit >= 1.
C30_HoldsForPositiveLimit ==
    (stm_return # <<>> => Get(stm_return).limit >= 1) => C30_MemoryKeepsMostRecent

====
